---- MODULE Spec2Model ----
(***************************************************************************)
(* TruthByte diagnosis engine: the write phase, the verify phase and the   *)
(* quick probe of DriveInspector (src/src/io_controller/*.rs) together     *)
(* with the report generator of src/src/core_logic.rs, and the worker that *)
(* start_diagnosis runs in the desktop front end (src/src-tauri).          *)
(*                                                                         *)
(* Byte counts and offsets carry their real values (4096-byte alignment,   *)
(* MiB limits).  The target's content is kept as a sequence of extents:    *)
(* an extent of kind "stream" and origin o holds the bytes fill_block      *)
(* generated for the block that started at offset o; "altered" is such a   *)
(* block with some byte changed and not all bytes zero; "zero" is a block  *)
(* that reads back as zeros.                                               *)
(***************************************************************************)
EXTENDS Integers, Sequences, FiniteSets, TLC

\* ------------------------------------------------------------------ bounds
MaxLimitMb == 1
MaxShortWrites == 1
MaxCorrupt == 2
MaxReadFaults == 2

\* --------------------------------------------------------------- constants
DIRECT_IO_ALIGNMENT == 4096
MiB == 1024 * 1024
\* u64::MAX (write.rs:44) narrowed to a width the checker can hold: all low
\* bits set, far above every offset the model reaches.
U64_MAX == (1024 * 1024 * 1024) - 1
\* usize::MAX, narrowed the same way: value + alignment - 1 in align_up
\* wraps modulo USIZE_MAX + 1
USIZE_MAX == (1024 * 1024 * 1024) - 1
\* block sizes the inspector is configured with (AppConfig.block_size):
\* zero, one that needs rounding up, and one already aligned
\* AppConfig::default().block_size, the size the desktop front end runs with
DefaultBlockSize == 4 * 1024 * 1024
BlockSizeConfigs == {0, 300000, 524288, DefaultBlockSize}
\* length of the foreign content a target that exists beforehand holds
PreexistingBytes == 2 * DIRECT_IO_ALIGNMENT
\* total_bytes values run_verify_phase is called with on its own: nothing,
\* one aligned unit, and a count that is not a multiple of the alignment
DirectTotals == {0, DIRECT_IO_ALIGNMENT, DIRECT_IO_ALIGNMENT + 904}
\* the modelled device refuses writes beyond this many bytes
DevCapacityBytes == (MaxLimitMb * MiB) + (MiB \div 2)

Min(a, b) == IF a < b THEN a ELSE b

\* ------------------------------------------------------------- direct_io.rs
\* direct_io.rs 16: value + alignment - 1 does not fit a usize
align_up_overflows(value, alignment) ==
    alignment # 0 /\ value + alignment - 1 > USIZE_MAX

\* direct_io.rs 12-17, the sum taken in usize arithmetic that wraps
align_up(value, alignment) ==
    IF alignment = 0 THEN value
    ELSE (((value + alignment - 1) % (USIZE_MAX + 1)) \div alignment)
         * alignment

align_down_u64(value, alignment) ==
    IF alignment = 0 THEN value
    ELSE (value \div alignment) * alignment

\* variant: a block size of zero is not rejected
resolve_block_size_unchecked(bs) ==
    [ok |-> TRUE, val |-> align_up(bs, DIRECT_IO_ALIGNMENT)]

resolve_block_size(bs) ==
    IF bs = 0 THEN [ok |-> FALSE, kind |-> "InvalidInput"]
    ELSE [ok |-> TRUE, val |-> align_up(bs, DIRECT_IO_ALIGNMENT)]

\* --------------------------------------------------------------- progress.rs
\* variant: the token is never consulted
should_cancel_never(present, flag) == FALSE

should_cancel(present, flag) == IF present THEN flag ELSE FALSE

emit_error(present, errors, msg) == IF present THEN Append(errors, msg) ELSE errors

\* ------------------------------------------------------------------ write.rs
limit_bytes_raw_of(mb) == IF mb = 0 THEN U64_MAX ELSE mb * 1024 * 1024

\* variant: the limit is taken one alignment unit short
limit_bytes_of_short(mb) ==
    align_down_u64(limit_bytes_raw_of(mb) - 1, DIRECT_IO_ALIGNMENT)

limit_bytes_of(mb) == align_down_u64(limit_bytes_raw_of(mb), DIRECT_IO_ALIGNMENT)

\* variant: WriteZero is not recognised as device-full
IsStorageFull_strict(kind) == kind = "StorageFull"

\* variant: Interrupted is taken for device-full as well
IsStorageFull_lenient(kind) == kind \in {"WriteZero", "StorageFull", "Interrupted"}

\* the error kinds the write loop treats as "device full"
IsStorageFull(kind) == kind \in {"WriteZero", "StorageFull"}

WriteErrorKinds == {"WriteZero", "StorageFull", "Interrupted", "Other"}

\* ----------------------------------------------------------------- verify.rs
\* variant: the count to verify is never taken for unaligned
total_bytes_unaligned_never(total) == FALSE

\* verify.rs 24: total_bytes % DIRECT_IO_ALIGNMENT != 0
total_bytes_unaligned(total) == total % DIRECT_IO_ALIGNMENT # 0

\* ------------------------------------------------------------ target content
\* len bytes that continue, from index skew on, the block generated for
\* offset origin (kind "stream"), that block's bytes changed but not all zero
\* ("altered"), or zeros ("zero": a hole or a cell the device never stored)
Extent(o, sk, n, k) == [origin |-> o, skew |-> sk, len |-> n, kind |-> k]

RECURSIVE DevSizeFrom(_, _)
DevSizeFrom(d, i) == IF i > Len(d) THEN 0 ELSE d[i].len + DevSizeFrom(d, i + 1)

DevSize(d) == DevSizeFrom(d, 1)

\* the pieces of the target a read of n bytes at position pos returns
RECURSIVE PiecesFrom(_, _, _, _, _)
PiecesFrom(d, i, start, pos, n) ==
    IF i > Len(d) \/ n <= 0 THEN <<>>
    ELSE LET e == d[i]
             end == start + e.len
         IN IF end <= pos THEN PiecesFrom(d, i + 1, end, pos, n)
            ELSE LET take == Min(end, pos + n) - pos
                 IN <<Extent(e.origin, e.skew + (pos - start), take, e.kind)>>
                    \o PiecesFrom(d, i + 1, end, pos + take, n - take)

ReadPieces(d, pos, n) == PiecesFrom(d, 1, 0, pos, n)

RECURSIVE PiecesLen(_, _)
PiecesLen(ps, i) == IF i > Len(ps) THEN 0 ELSE ps[i].len + PiecesLen(ps, i + 1)

\* neighbouring extents that continue one another are one extent
Continues(e1, e2) ==
    /\ e1.kind = e2.kind
    /\ e1.origin = e2.origin
    /\ e2.skew = e1.skew + e1.len

RECURSIVE Merge(_)
Merge(d) ==
    IF Len(d) < 2 THEN d
    ELSE IF Continues(d[1], d[2])
         THEN Merge(<<[d[1] EXCEPT !.len = @ + d[2].len]>> \o SubSeq(d, 3, Len(d)))
         ELSE <<d[1]>> \o Merge(Tail(d))

\* the target after the device stored `count` bytes at position pos, taken
\* from index skew of the buffer filled for the block at offset origin
PutExtent(d, pos, e) ==
    LET size == DevSize(d)
        before == ReadPieces(d, 0, Min(pos, size))
        hole == IF pos > size THEN <<Extent(0, 0, pos - size, "zero")>> ELSE <<>>
        after == ReadPieces(d, pos + e.len, size - (pos + e.len))
    IN Merge(before \o hole \o <<e>> \o after)

WriteAt(d, pos, origin, skew, count) ==
    PutExtent(d, pos, Extent(origin, skew, count, "stream"))

\* -------------------------------------------------------------- core_logic.rs
Statuses == {"Healthy", "PhysicalCorruption", "DataLoss", "FakeCapacity"}

\* variant: the rank is the position in the enum declaration
status_severity_declared(status) ==
    CASE status = "Healthy" -> 0
      [] status = "FakeCapacity" -> 1
      [] status = "PhysicalCorruption" -> 2
      [] status = "DataLoss" -> 3

\* core_logic.rs 104-111
status_severity(status) ==
    CASE status = "Healthy" -> 0
      [] status = "PhysicalCorruption" -> 1
      [] status = "DataLoss" -> 2
      [] status = "FakeCapacity" -> 3

\* verify_block(offset, buffer) on a buffer given by its pieces: the buffer
\* equals the regenerated block exactly when every piece continues the
\* stream of the block that starts at `offset`
RECURSIVE MatchesFrom(_, _, _, _)
MatchesFrom(offset, ps, i, idx) ==
    IF i > Len(ps) THEN TRUE
    ELSE /\ ps[i].kind = "stream"
         /\ ps[i].origin = offset
         /\ ps[i].skew = idx
         /\ MatchesFrom(offset, ps, i + 1, idx + ps[i].len)

verify_block(offset, ps) == MatchesFrom(offset, ps, 1, 0)

\* actual.iter().all(|b| b == 0)
AllZero(ps) == \A i \in 1..Len(ps) : ps[i].kind = "zero"

\* variant: the all-zero test is inverted
analyze_failure_sample_inverted(offset, len, ps) ==
    IF len = 0 \/ len # PiecesLen(ps, 1) THEN "None"
    ELSE IF verify_block(offset, ps) THEN "None"
    ELSE IF ~AllZero(ps) THEN "FakeCapacity"
    ELSE "PhysicalCorruption"

\* analyze_failure_sample(expected, actual): expected is the regenerated
\* block at `offset` of `len` bytes, actual the buffer read.  A buffer that
\* differs from an all-zero actual has a nonzero byte, so the test
\* expected.any(nonzero) is implied once the two differ.
analyze_failure_sample(offset, len, ps) ==
    IF len = 0 \/ len # PiecesLen(ps, 1) THEN "None"
    ELSE IF verify_block(offset, ps) THEN "None"
    ELSE IF AllZero(ps) THEN "FakeCapacity"
    ELSE "PhysicalCorruption"

\* variant: the score is not clamped
health_score_of_unclamped(total_capacity, valid_bytes) ==
    IF total_capacity = 0 THEN [num |-> 0, den |-> 1]
    ELSE [num |-> valid_bytes * 100, den |-> total_capacity]

\* health_score as the fraction num/den of 100 percent points
health_score_of(total_capacity, valid_bytes) ==
    IF total_capacity = 0 THEN [num |-> 0, den |-> 1]
    ELSE [num |-> Min(valid_bytes * 100, total_capacity * 100),
          den |-> total_capacity]

\* variant: read errors are left out of error_count
generate_report_mismatch_only(total_capacity, tested_bytes, valid, mismatch, read_errors, sample) ==
    LET error_count == mismatch
        base == IF error_count = 0 THEN "Healthy" ELSE "PhysicalCorruption"
        st1 == IF read_errors > 0 THEN "DataLoss" ELSE base
        st2 == IF sample # "None" /\ status_severity(sample) > status_severity(st1)
               THEN sample ELSE st1
    IN [total_capacity |-> total_capacity,
        tested_bytes |-> tested_bytes,
        valid_bytes |-> valid,
        error_count |-> error_count,
        health_score |-> health_score_of(total_capacity, valid),
        status |-> st2,
        early_note |-> tested_bytes < total_capacity]

\* variant: the base status is PhysicalCorruption whatever error_count is
generate_report_base_corrupt(total_capacity, tested_bytes, valid, mismatch, read_errors, sample) ==
    LET error_count == mismatch + read_errors
        base == "PhysicalCorruption"
        st1 == IF read_errors > 0 THEN "DataLoss" ELSE base
        st2 == IF sample # "None" /\ status_severity(sample) > status_severity(st1)
               THEN sample ELSE st1
    IN [total_capacity |-> total_capacity,
        tested_bytes |-> tested_bytes,
        valid_bytes |-> valid,
        error_count |-> error_count,
        health_score |-> health_score_of(total_capacity, valid),
        status |-> st2,
        early_note |-> tested_bytes < total_capacity]

\* variant: read errors do not escalate the status
generate_report_no_escalation(total_capacity, tested_bytes, valid, mismatch, read_errors, sample) ==
    LET error_count == mismatch + read_errors
        base == IF error_count = 0 THEN "Healthy" ELSE "PhysicalCorruption"
        st1 == base
        st2 == IF sample # "None" /\ status_severity(sample) > status_severity(st1)
               THEN sample ELSE st1
    IN [total_capacity |-> total_capacity,
        tested_bytes |-> tested_bytes,
        valid_bytes |-> valid,
        error_count |-> error_count,
        health_score |-> health_score_of(total_capacity, valid),
        status |-> st2,
        early_note |-> tested_bytes < total_capacity]

generate_report(total_capacity, tested_bytes, valid, mismatch, read_errors, sample) ==
    LET error_count == mismatch + read_errors
        base == IF error_count = 0 THEN "Healthy" ELSE "PhysicalCorruption"
        st1 == IF read_errors > 0 THEN "DataLoss" ELSE base
        st2 == IF sample # "None" /\ status_severity(sample) > status_severity(st1)
               THEN sample ELSE st1
    IN [total_capacity |-> total_capacity,
        tested_bytes |-> tested_bytes,
        valid_bytes |-> valid,
        error_count |-> error_count,
        health_score |-> health_score_of(total_capacity, valid),
        status |-> st2,
        early_note |-> tested_bytes < total_capacity]

\* variant: the latest sample always replaces the retained one
retain_sample_latest(existing, status) ==
    IF status = "None" THEN existing ELSE status

\* verify.rs 94-117: keep the more severe of the retained and the new sample
retain_sample(existing, status) ==
    IF status = "None" THEN existing
    ELSE IF existing = "None" THEN status
    ELSE IF status_severity(status) > status_severity(existing) THEN status
    ELSE existing

SampleSeverity(s) == IF s = "None" THEN 0 ELSE status_severity(s)


\* ------------------------------------------------------------------ probe.rs
\* variant: one step is accepted
steps_too_few_lax(st) == st < 1

\* probe.rs 29: steps < 2
steps_too_few(st) == st < 2

\* variant: the offsets are not clamped to the last block of the span
RECURSIVE ProbeOffsetsFrom_unclamped(_, _, _, _)
ProbeOffsetsFrom_unclamped(total, last_offset, nsteps, step) ==
    IF step > nsteps THEN <<>>
    ELSE LET numerator == Min(total * step, U64_MAX)
             raw == numerator \div nsteps
             aligned == align_down_u64(raw, DIRECT_IO_ALIGNMENT)
         IN <<aligned>>
            \o ProbeOffsetsFrom_unclamped(total, last_offset, nsteps, step + 1)

\* probe.rs 125-130: step 0..=steps, saturating_mul, divide, align down, clamp
RECURSIVE ProbeOffsetsFrom(_, _, _, _)
ProbeOffsetsFrom(total, last_offset, nsteps, step) ==
    IF step > nsteps THEN <<>>
    ELSE LET numerator == Min(total * step, U64_MAX)
             raw == numerator \div nsteps
             aligned == align_down_u64(raw, DIRECT_IO_ALIGNMENT)
         IN <<Min(aligned, last_offset)>>
            \o ProbeOffsetsFrom(total, last_offset, nsteps, step + 1)

compute_probe_offsets(total, bsize, nsteps) ==
    IF total = 0 \/ bsize = 0 THEN <<>>
    ELSE ProbeOffsetsFrom(total, IF total > bsize THEN total - bsize ELSE 0,
                          nsteps, 0)

\* Vec::dedup: drop an element equal to its predecessor
RECURSIVE Dedup(_)
Dedup(q) ==
    IF Len(q) < 2 THEN q
    ELSE IF q[1] = q[2] THEN Dedup(Tail(q))
    ELSE <<q[1]>> \o Dedup(Tail(q))

\* probe.rs 44-49
probe_anchors(total, bsize, nsteps) ==
    Dedup(SortSeq(compute_probe_offsets(total, bsize, nsteps),
                  LAMBDA a, b : a < b))

\* variant: no other anchor is ever compared
matches_other_anchor_never(anchors, current, ps) == FALSE

matches_other_anchor(anchors, current, ps) ==
    \E i \in 1..Len(anchors) :
        anchors[i] # current /\ verify_block(anchors[i], ps)

VARIABLES
    block_size_cfg,     \* DriveInspector.block_size
    limit_mb,           \* argument of run_write_phase
    has_cancel,         \* cancel_flag is Some(..)
    has_sink,           \* sink is Some(..)
    cancel_flag,        \* the shared AtomicBool
    pc,
    block_size,
    limit_bytes,
    current_offset,
    io_len,             \* write_len / read_len of the block in progress
    written,
    stop_due_to_full,
    write_result,
    dev,                \* content of the target
    sink_errors,        \* messages passed to EventSink::error
    last_event,         \* the last externally visible thing the phase did
    sync_log,           \* one entry per file.sync_all(): offset and outcome
    last_write,         \* outcome of the latest file.write call
    cancel_offset,      \* current_offset when a poll found the token set
    w_exit,             \* why the write loop ended
    short_writes,
    since_cancel,       \* bytes transferred since cancel_flag was last set
    polls,              \* loads of cancel_flag by the running phase
    iterations,         \* block iterations started by the running phase
    io_calls,           \* file.write or read_exact calls of the running phase
    total_bytes,        \* argument of run_verify_phase
    file_pos,           \* position of the read handle
    mismatch_blocks,
    read_error_blocks,
    failed_bytes,       \* bytes of the blocks counted in those two tallies
    valid_bytes,
    sample_status,
    verify_result,
    v_exit,             \* why the verify loop ended
    worst_seen,         \* most severe classification returned in this pass
    corrupt_count,      \* blocks changed on the target after the write
    steps,              \* argument of run_quick_probe_phase
    offsets,            \* the probe's anchors
    anchor_idx,         \* index of the anchor the probe loop is at
    probe_result,
    parent_exists,      \* the target's parent directory exists
    target_exists,      \* the target file exists
    target_opened,      \* the running phase has called open on the target
    ui_event,           \* the event start_diagnosis ended the session with
    run_outcome,        \* what the orchestrator of the two phases ended with
    v_block_size_cfg,   \* block_size of the inspector the verify phase ran on
    buffer,             \* the AlignedBuffer the running phase owns (0: none)
    buf_allocs,         \* AlignedBuffer::new calls that returned a buffer
    buf_frees,          \* the AlignedBuffer values deallocated, in order
    c_in,               \* core_logic: the two offsets and the length drawn
    c_buf,              \* core_logic: the caller's buffer
    c_off,              \* core_logic: the offset the buffer was filled at
    c_altered,          \* core_logic: the buffer was changed after its fill
    c_rng,              \* core_logic: the generator the latest call ran
    c_first,            \* core_logic: what the first fill of each offset gave
    c_last,             \* core_logic: the latest call and its result
    c_calls,            \* core_logic: calls made so far
    running,            \* AppState.running
    g_start,            \* front end: where each start_diagnosis call stands
    g_worker,           \* front end: the worker each start_diagnosis spawned
    g_stop,             \* front end: where each stop_diagnosis call stands
    r_size,             \* direct_io: the size resolve_block_size is called with
    r_res               \* direct_io: what that call returned

vars == <<block_size_cfg, limit_mb, has_cancel, has_sink, cancel_flag, pc,
          block_size, limit_bytes, current_offset, io_len, written,
          stop_due_to_full, write_result, dev, sink_errors, last_event,
          sync_log, last_write, cancel_offset, w_exit, short_writes, since_cancel, polls,
          iterations, io_calls, total_bytes, file_pos, mismatch_blocks,
          failed_bytes,
          read_error_blocks, valid_bytes, sample_status, verify_result,
          v_exit, worst_seen, corrupt_count, steps, offsets, anchor_idx,
          probe_result, parent_exists, target_exists, target_opened,
          ui_event, run_outcome, v_block_size_cfg, buffer, buf_allocs,
          buf_frees,
          c_in, c_buf, c_off, c_altered, c_rng, c_first, c_last, c_calls,
          running, g_start, g_worker, g_stop, r_size, r_res>>

\* the target's existence, the phase's open call, the front end's last event
o_vars == <<target_exists, target_opened, ui_event>>

\* the quick probe's own state
p_vars == <<steps, offsets, anchor_idx, probe_result>>

\* the verify phase's own state
v_vars == <<v_block_size_cfg, total_bytes, file_pos, mismatch_blocks,
            failed_bytes, read_error_blocks,
            valid_bytes, sample_status, verify_result, v_exit, worst_seen,
            corrupt_count>>

\* the write phase's own state
w_vars == <<limit_bytes, written, stop_due_to_full, write_result, sync_log,
            w_exit, short_writes, last_write, cancel_offset>>

\* the AlignedBuffer of the running phase, and those made and dropped so far
b_vars == <<buffer, buf_allocs, buf_frees>>

\* the state of the calls made on core_logic alone
c_vars == <<c_in, c_buf, c_off, c_altered, c_rng, c_first, c_last, c_calls>>

\* the calls of the front end's commands and the workers they spawned
g_vars == <<g_start, g_worker, g_stop>>

\* the call made on resolve_block_size alone
r_vars == <<r_size, r_res>>

\* what no step of a phase changes: the inspector's configuration and the
\* arguments, and the state of the callers that are not running
cfg_vars == <<block_size_cfg, limit_mb, has_cancel, has_sink, parent_exists,
              c_vars, g_vars, r_vars>>

NoResult == [ok |-> FALSE, kind |-> "none"]
\* no block of the pass has mismatched or failed to read
NoFailedBytes == [mismatch |-> 0, read_error |-> 0]
\* Option<DiagnosisReport>
NoReport == [some |-> FALSE]
SomeReport(r) == [some |-> TRUE, report |-> r]
Ok(v) == [ok |-> TRUE, val |-> v]
\* an event of the front end: its name and the status of the report it carries
UiEvent(n, st) == [name |-> n, status |-> st]
NoEvent == UiEvent("none", "None")

\* the orchestrator has not returned
NoOutcome == [kind |-> "none"]

\* app.rs 170-178, main.rs 101-112: the report made when nothing was written
NoDataReport ==
    [total_capacity |-> 0, tested_bytes |-> 0, valid_bytes |-> 0,
     error_count |-> 0, health_score |-> [num |-> 0, den |-> 1],
     status |-> "DataLoss"]

\* app.rs 166-191, main.rs 99-148: what the orchestrator makes of the
\* result of the write phase and, if it ran, of the verify phase
outcome_of(wres, vres) ==
    IF ~wres.ok
    THEN [kind |-> "write_error", error |-> wres.kind]
    ELSE IF wres.val = 0
    THEN [kind |-> "report", bytes_written |-> 0, report |-> NoDataReport]
    ELSE IF ~vres.ok
    THEN [kind |-> "verify_error", error |-> vres.kind]
    ELSE [kind |-> "report", bytes_written |-> wres.val, report |-> vres.val]
Err(k) == [ok |-> FALSE, kind |-> k]

\* ------------------------------------------- core_logic.rs: the generator
\* a u64 is its eight bytes, least significant first
WordBytes == 8

\* the u64 of a number below 2^31
RECURSIVE WordFrom(_, _)
WordFrom(n, i) ==
    IF i > WordBytes THEN <<>> ELSE <<n % 256>> \o WordFrom(n \div 256, i + 1)

W(n) == WordFrom(n, 1)

\* the u64 whose byte i is F(i)
Word(F(_)) == <<F(1), F(2), F(3), F(4), F(5), F(6), F(7), F(8)>>

\* 2^k for k in 0..8
Pow2(k) == <<1, 2, 4, 8, 16, 32, 64, 128, 256>>[k + 1]

\* a ^ b on two numbers below 2^k
RECURSIVE XorBits(_, _, _)
XorBits(x, y, k) ==
    IF k = 0 THEN 0
    ELSE ((x + y) % 2) + 2 * XorBits(x \div 2, y \div 2, k - 1)

\* a ^ b on two half bytes, tabulated
XorNibble == [x \in 0..15 |-> [y \in 0..15 |-> XorBits(x, y, 4)]]

\* a ^ b on two bytes
XorByte(x, y) ==
    XorNibble[x % 16][y % 16] + 16 * XorNibble[x \div 16][y \div 16]

\* a ^ b on u64
XorW(a, b) ==
    LET byte(i) == XorByte(a[i], b[i])
    IN Word(byte)

\* a >> k on u64
ShrW(a, k) ==
    LET q == k \div 8
        r == k % 8
        limb(j) == IF j > WordBytes THEN 0 ELSE a[j]
        byte(i) == (limb(i + q) \div Pow2(r))
                   + (limb(i + q + 1) % Pow2(r)) * Pow2(8 - r)
    IN Word(byte)

\* a.wrapping_add(b) on u64: each byte takes the carry of the one before
AddW(a, b) ==
    LET s1 == a[1] + b[1]
        s2 == a[2] + b[2] + (s1 \div 256)
        s3 == a[3] + b[3] + (s2 \div 256)
        s4 == a[4] + b[4] + (s3 \div 256)
        s5 == a[5] + b[5] + (s4 \div 256)
        s6 == a[6] + b[6] + (s5 \div 256)
        s7 == a[7] + b[7] + (s6 \div 256)
        s8 == a[8] + b[8] + (s7 \div 256)
    IN <<s1 % 256, s2 % 256, s3 % 256, s4 % 256,
         s5 % 256, s6 % 256, s7 % 256, s8 % 256>>

\* the sum of the byte products that land in byte c of a * b
RECURSIVE MulColumn(_, _, _, _)
MulColumn(a, b, c, i) ==
    IF i > c THEN 0 ELSE a[i] * b[c - i + 1] + MulColumn(a, b, c, i + 1)

\* a.wrapping_mul(b) on u64: each column takes the carry of the one before
MulW(a, b) ==
    LET s1 == MulColumn(a, b, 1, 1)
        s2 == MulColumn(a, b, 2, 1) + (s1 \div 256)
        s3 == MulColumn(a, b, 3, 1) + (s2 \div 256)
        s4 == MulColumn(a, b, 4, 1) + (s3 \div 256)
        s5 == MulColumn(a, b, 5, 1) + (s4 \div 256)
        s6 == MulColumn(a, b, 6, 1) + (s5 \div 256)
        s7 == MulColumn(a, b, 7, 1) + (s6 \div 256)
        s8 == MulColumn(a, b, 8, 1) + (s7 \div 256)
    IN <<s1 % 256, s2 % 256, s3 % 256, s4 % 256,
         s5 % 256, s6 % 256, s7 % 256, s8 % 256>>

\* 0x9E3779B97F4A7C15
GOLDEN_GAMMA == <<21, 124, 74, 127, 185, 121, 55, 158>>
\* 0xBF58476D1CE4E5B9
MIX_A == <<185, 229, 228, 28, 109, 71, 88, 191>>
\* 0x94D049BB133111EB
MIX_B == <<235, 17, 49, 19, 187, 73, 208, 148>>

\* z ^ (z >> k)
XorShift(z, k) == XorW(z, ShrW(z, k))

\* core_logic.rs 51-53 and 27-29: the three mixing lines
Mix(z0) ==
    XorShift(MulW(XorShift(MulW(XorShift(z0, 30), MIX_A), 27), MIX_B), 31)

\* variant: only the low 32 bits of the offset reach the seed
generate_seed_low32(offset) ==
    Mix(AddW(<<offset[1], offset[2], offset[3], offset[4], 0, 0, 0, 0>>,
             GOLDEN_GAMMA))

\* core_logic.rs 24-30
generate_seed(offset) == Mix(AddW(offset, GOLDEN_GAMMA))

\* core_logic.rs 39-45
SplitMix64_new(seed) == [state |-> seed, buffer |-> W(0), available |-> 0]

\* core_logic.rs 49-53: the state st is stored and mixed into the value
Advanced(rng, st) == [rng |-> [rng EXCEPT !.state = st], val |-> Mix(st)]

\* core_logic.rs 48-54: the generator after next_u64, and the value returned
next_u64(rng) == Advanced(rng, AddW(rng.state, GOLDEN_GAMMA))

\* core_logic.rs 58-61: the eight bytes of a fresh u64 become available
Refill(drawn) == [drawn.rng EXCEPT !.buffer = drawn.val, !.available = 8]

\* core_logic.rs 62-65: the low byte leaves the buffer
TakeByte(r) ==
    [rng |-> [r EXCEPT !.buffer = ShrW(r.buffer, 8),
                       !.available = r.available - 1],
     val |-> r.buffer[1]]

\* core_logic.rs 57-66: the generator after next_u8, and the byte returned
next_u8(rng) ==
    TakeByte(IF rng.available = 0 THEN Refill(next_u64(rng)) ELSE rng)

\* core_logic.rs 73-75: one turn of the loop of fill_block
DrawOne(d) == [bytes |-> <<d.val>>, rng |-> d.rng]

\* the loop of fill_block: n bytes drawn from rng, and the generator left
RECURSIVE DrawBytes(_, _)
DrawBytes(rng, n) ==
    IF n = 0 THEN [bytes |-> <<>>, rng |-> rng]
    ELSE IF n = 1
    THEN DrawOne(next_u8(rng))
    ELSE LET head == DrawBytes(rng, n \div 2)
             tail == DrawBytes(head.rng, n - (n \div 2))
         IN [bytes |-> head.bytes \o tail.bytes, rng |-> tail.rng]

\* core_logic.rs 69-76: the bytes fill_block(offset, buffer) leaves in a
\* buffer of len bytes
fill_block(offset, len) == DrawBytes(SplitMix64_new(generate_seed(offset)), len).bytes

\* the generator fill_block runs, as it is when the loop ends
fill_block_run(offset, len) ==
    DrawBytes(SplitMix64_new(generate_seed(offset)), len)

\* core_logic.rs 82-86: one turn of the loop of verify_block
CompareOne(d, buf, lo) ==
    [res |-> IF buf[lo + 1] # d.val THEN Err(lo) ELSE Ok(<<>>), rng |-> d.rng]

\* the loop of verify_block over buf[lo .. lo + n): the first index whose
\* byte differs from the generator's, and the generator left
RECURSIVE CompareBytes(_, _, _, _)
CompareBytes(rng, buf, lo, n) ==
    IF n = 0 THEN [res |-> Ok(<<>>), rng |-> rng]
    ELSE IF n = 1
    THEN CompareOne(next_u8(rng), buf, lo)
    ELSE LET head == CompareBytes(rng, buf, lo, n \div 2)
         IN IF head.res.ok
            THEN CompareBytes(head.rng, buf, lo + (n \div 2),
                              n - (n \div 2))
            ELSE head

\* the generator verify_block runs, and the result
verify_block_run(offset, buf) ==
    CompareBytes(SplitMix64_new(generate_seed(offset)), buf, 0, Len(buf))

\* variant: the index returned is that of the last differing byte
verify_block_bytes_last(offset, buf) ==
    LET expected == fill_block(offset, Len(buf))
        diff == {i \in 0..(Len(buf) - 1) : buf[i + 1] # expected[i + 1]}
    IN IF diff = {} THEN Ok(<<>>)
       ELSE Err(CHOOSE i \in diff : \A j \in diff : j <= i)

\* core_logic.rs 78-89: verify_block on the bytes of a buf
verify_block_bytes(offset, buf) == verify_block_run(offset, buf).res

\* variant: an all-zero read is not told apart
analyze_failure_sample_bytes_no_zero_test(expected, actual) ==
    IF Len(expected) = 0 \/ Len(expected) # Len(actual) THEN "None"
    ELSE IF expected = actual THEN "None"
    ELSE "PhysicalCorruption"

\* core_logic.rs 91-102: analyze_failure_sample on the bytes of two buffers
analyze_failure_sample_bytes(expected, actual) ==
    IF Len(expected) = 0 \/ Len(expected) # Len(actual) THEN "None"
    ELSE IF expected = actual THEN "None"
    ELSE IF (\A i \in 1..Len(actual) : actual[i] = 0)
            /\ (\E i \in 1..Len(expected) : expected[i] # 0)
    THEN "FakeCapacity"
    ELSE "PhysicalCorruption"

\* no call on resolve_block_size alone is made
ResolveParked ==
    /\ r_size = 0
    /\ r_res = NoResult

\* no call on core_logic alone is made
CoreParked ==
    /\ c_in = [a |-> W(0), b |-> W(0), len |-> 0]
    /\ c_buf = <<>>
    /\ c_off = <<>>
    /\ c_altered = FALSE
    /\ c_rng = SplitMix64_new(W(0))
    /\ c_first = {}
    /\ c_last = [op |-> "none"]
    /\ c_calls = 0

EngineInit ==
    /\ block_size_cfg \in BlockSizeConfigs
    /\ limit_mb \in 0..MaxLimitMb
    /\ has_cancel \in BOOLEAN
    /\ has_sink \in BOOLEAN
    /\ cancel_flag = FALSE
    /\ pc = "idle"
    /\ block_size = 0
    /\ limit_bytes = 0
    /\ current_offset = 0
    /\ io_len = 0
    /\ written = 0
    /\ stop_due_to_full = FALSE
    /\ write_result = NoResult
    /\ parent_exists \in BOOLEAN
    /\ target_exists \in {b \in BOOLEAN : b => parent_exists}
    /\ dev = IF target_exists
             THEN <<Extent(0, 0, PreexistingBytes, "altered")>> ELSE <<>>
    /\ target_opened = FALSE
    /\ ui_event = NoEvent
    /\ run_outcome = NoOutcome
    /\ sink_errors = <<>>
    /\ last_event = "none"
    /\ sync_log = <<>>
    /\ last_write = "none"
    /\ cancel_offset = 0
    /\ w_exit = "none"
    /\ short_writes = 0
    /\ since_cancel = 0
    /\ polls = 0
    /\ iterations = 0
    /\ io_calls = 0
    /\ total_bytes = 0
    /\ file_pos = 0
    /\ mismatch_blocks = 0
    /\ failed_bytes = NoFailedBytes
    /\ read_error_blocks = 0
    /\ valid_bytes = 0
    /\ sample_status = "None"
    /\ verify_result = NoResult
    /\ v_exit = "none"
    /\ worst_seen = 0
    /\ corrupt_count = 0
    /\ steps = 0
    /\ offsets = <<>>
    /\ anchor_idx = 0
    /\ probe_result = NoResult
    /\ v_block_size_cfg = 0
    /\ buffer = 0
    /\ buf_allocs = 0
    /\ buf_frees = <<>>

\* the session is one started by start_diagnosis: default configuration,
\* a token and a sink
GuiSession ==
    has_cancel /\ has_sink /\ block_size_cfg = DefaultBlockSize

\* no command of the front end is called
GuiParked ==
    /\ g_start = <<>>
    /\ g_worker = <<>>
    /\ g_stop = <<>>

\* main.rs 79: the session of a worker runs with the running flag set
Init ==
    /\ EngineInit /\ CoreParked /\ GuiParked /\ ResolveParked
    /\ running = GuiSession

\* ------------------------------------------------- direct_io: AlignedBuffer
\* variant: drop returns before dealloc
AlignedBuffer_drop_leaks(frees, b) == frees

\* direct_io.rs 95-104: Drop for AlignedBuffer deallocates the pointer
AlignedBuffer_drop(frees, b) == Append(frees, b)

\* direct_io.rs 76-88: AlignedBuffer::new returned a buffer the phase now owns
BufferAcquire ==
    /\ buffer' = buf_allocs + 1
    /\ buf_allocs' = buf_allocs + 1
    /\ UNCHANGED buf_frees

\* the phase returns: the buffer it owns goes out of scope
BufferRelease ==
    /\ buf_frees' = AlignedBuffer_drop(buf_frees, buffer)
    /\ buffer' = 0
    /\ UNCHANGED buf_allocs

\* the phase returns in the statement after AlignedBuffer::new
BufferAcquireRelease ==
    /\ buf_allocs' = buf_allocs + 1
    /\ buf_frees' = AlignedBuffer_drop(buf_frees, buf_allocs + 1)
    /\ buffer' = 0

\* ------------------------------------------------- orchestrator: the token
RequestCancel ==
    /\ has_cancel /\ ~cancel_flag
    /\ pc \in {"w_loop", "w_write", "w_sync", "v_loop", "v_read", "v_seek",
              "v_report"}
    /\ cancel_flag' = TRUE
    /\ since_cancel' = 0
    /\ UNCHANGED <<cfg_vars, running, b_vars, o_vars, p_vars, v_vars, w_vars, pc, block_size,
                   current_offset, io_len, dev, sink_errors, last_event,
                   polls, iterations>>
    /\ UNCHANGED io_calls
    /\ UNCHANGED run_outcome

\* ------------------------------------------------------------- write phase
WriteFinish(res, errors, ev) ==
    /\ pc' = "w_done"
    /\ write_result' = res
    /\ sink_errors' = errors
    /\ last_event' = ev

\* write.rs 24-71: run_write_phase_with_events up to the loop
WriteStart ==
    /\ pc = "idle"
    /\ \E open_ok, alloc_ok \in BOOLEAN :
         LET bs == resolve_block_size(block_size_cfg)
             lim == limit_bytes_of(limit_mb)
         IN
         IF ~parent_exists THEN
             /\ WriteFinish(Err("NotFound"), sink_errors, last_event)
             /\ UNCHANGED <<dev, block_size, limit_bytes, target_exists,
                            target_opened, b_vars>>
         ELSE IF ~bs.ok THEN
             /\ WriteFinish(Err(bs.kind), sink_errors, last_event)
             /\ UNCHANGED <<dev, block_size, limit_bytes, target_exists,
                            target_opened, b_vars>>
         ELSE IF ~open_ok THEN
             /\ WriteFinish(Err("OpenFailed"),
                            emit_error(has_sink, sink_errors,
                                       [what |-> "open_write", offset |-> 0]),
                            IF has_sink THEN "sink_error" ELSE last_event)
             /\ target_opened' = TRUE
             /\ UNCHANGED <<dev, block_size, limit_bytes, target_exists,
                            b_vars>>
         ELSE IF ~alloc_ok THEN
             /\ WriteFinish(Err("Other"), sink_errors, last_event)
             /\ dev' = <<>>
             /\ target_exists' = TRUE
             /\ target_opened' = TRUE
             /\ UNCHANGED <<block_size, limit_bytes, b_vars>>
         ELSE IF limit_mb > 0 /\ lim = 0 THEN
             /\ WriteFinish(Err("InvalidInput"), sink_errors, last_event)
             /\ dev' = <<>>
             /\ target_exists' = TRUE
             /\ target_opened' = TRUE
             /\ BufferAcquireRelease
             /\ UNCHANGED <<block_size, limit_bytes>>
         ELSE
             /\ pc' = "w_loop"
             /\ dev' = <<>>
             /\ target_exists' = TRUE
             /\ target_opened' = TRUE
             /\ block_size' = bs.val
             /\ limit_bytes' = lim
             /\ BufferAcquire
             /\ UNCHANGED <<write_result, sink_errors, last_event>>
    /\ current_offset' = 0
    /\ stop_due_to_full' = FALSE
    /\ UNCHANGED <<cfg_vars, running, ui_event, p_vars, v_vars, cancel_flag, io_len, written,
                   sync_log, last_write, cancel_offset, w_exit, short_writes,
                   since_cancel, polls, iterations>>
    /\ io_calls' = 0
    /\ UNCHANGED run_outcome

\* write.rs 72-80: the loop condition (the token is loaded only when the
\* offset test passed), then the block is generated at current_offset
WriteLoopHead ==
    /\ pc = "w_loop"
    /\ polls' = IF current_offset < limit_bytes /\ has_cancel
                THEN polls + 1 ELSE polls
    /\ IF current_offset < limit_bytes /\ ~should_cancel(has_cancel, cancel_flag)
       THEN /\ pc' = "w_write"
            /\ io_len' = Min(limit_bytes - current_offset, block_size)
            /\ written' = 0
            /\ iterations' = iterations + 1
            /\ UNCHANGED <<w_exit, cancel_offset>>
       ELSE /\ pc' = "w_sync"
            /\ w_exit' = IF current_offset < limit_bytes THEN "cancel" ELSE "limit"
            /\ cancel_offset' = IF current_offset < limit_bytes
                                THEN current_offset ELSE cancel_offset
            /\ UNCHANGED <<io_len, written, iterations>>
    /\ UNCHANGED <<cfg_vars, running, b_vars, o_vars, p_vars, v_vars, cancel_flag, block_size,
                   limit_bytes, current_offset, stop_due_to_full, write_result,
                   dev, sink_errors, last_event, sync_log, last_write,
                   short_writes, since_cancel>>
    /\ UNCHANGED io_calls
    /\ UNCHANGED run_outcome

\* variant: a write that accepts nothing is tried again
WriteFull_retries ==
    /\ pc = "w_write"
    /\ \E kind \in {"OkZero"} \cup {k \in WriteErrorKinds : IsStorageFull(k)} :
         last_write' = kind
    /\ UNCHANGED <<cfg_vars, running, b_vars, o_vars, p_vars, v_vars, cancel_flag, block_size,
                   limit_bytes, current_offset, io_len, written, write_result,
                   dev, sink_errors, last_event, sync_log, cancel_offset,
                   short_writes, since_cancel, polls, iterations,
                   stop_due_to_full, pc, w_exit>>
    /\ io_calls' = io_calls + 1
    /\ UNCHANGED run_outcome

\* write.rs 85-89 and 95-99: file.write returned Ok(0), or an error of a
\* kind that means the device is full
WriteFull ==
    /\ pc = "w_write"
    /\ \E kind \in {"OkZero"} \cup {k \in WriteErrorKinds : IsStorageFull(k)} :
         last_write' = kind
    /\ stop_due_to_full' = TRUE
    /\ pc' = "w_sync"
    /\ w_exit' = "full"
    /\ UNCHANGED <<cfg_vars, running, b_vars, o_vars, p_vars, v_vars, cancel_flag, block_size,
                   limit_bytes, current_offset, io_len, written, write_result,
                   dev, sink_errors, last_event, sync_log, cancel_offset,
                   short_writes, since_cancel, polls, iterations>>
    /\ io_calls' = io_calls + 1
    /\ UNCHANGED run_outcome

\* variant: the block is generated again at the offset reached
target_buf_rest_refilled(offset, done) == [origin |-> offset, skew |-> 0]

\* write.rs 80 and 84: &target_buf[written..], the rest of the buffer that
\* fill_block filled for the offset the block started at
target_buf_rest(offset, done) == [origin |-> offset - done, skew |-> done]

\* the byte counts a single write call may accept
WriteCounts(rem) == {c \in {1, DIRECT_IO_ALIGNMENT, rem} : c <= rem}

\* write.rs 90-93, and 109-132 once the block is complete
WriteOk ==
    /\ pc = "w_write"
    /\ \E count \in WriteCounts(io_len - written), emit \in BOOLEAN :
         /\ current_offset + count <= DevCapacityBytes
         /\ count < io_len - written => short_writes < MaxShortWrites
         /\ short_writes' = IF count < io_len - written
                            THEN short_writes + 1 ELSE short_writes
         /\ dev' = WriteAt(dev, current_offset,
                           target_buf_rest(current_offset, written).origin,
                           target_buf_rest(current_offset, written).skew,
                           count)
         /\ written' = written + count
         /\ current_offset' = current_offset + count
         /\ since_cancel' = IF cancel_flag THEN since_cancel + count ELSE 0
         /\ IF written + count < io_len
            THEN /\ pc' = "w_write"
                 /\ last_event' = "write"
            ELSE /\ pc' = "w_loop"
                 /\ last_event' = IF emit /\ has_sink THEN "progress" ELSE "write"
    /\ last_write' = "OkCount"
    /\ UNCHANGED <<cfg_vars, running, b_vars, o_vars, p_vars, v_vars, cancel_flag, block_size,
                   limit_bytes, io_len, stop_due_to_full, write_result,
                   sink_errors, sync_log, cancel_offset, w_exit, polls,
                   iterations>>
    /\ io_calls' = io_calls + 1
    /\ UNCHANGED run_outcome

\* write.rs 94-105: any other error kind is reported and returned
WriteFatal ==
    /\ pc = "w_write"
    /\ \E kind \in {k \in WriteErrorKinds : ~IsStorageFull(k)} :
         /\ last_write' = kind
         /\ WriteFinish(Err(kind),
                        emit_error(has_sink, sink_errors,
                                   [what |-> "write_failure",
                                    offset |-> current_offset]),
                        IF has_sink THEN "sink_error" ELSE last_event)
    /\ w_exit' = "fatal"
    /\ BufferRelease
    /\ UNCHANGED <<cfg_vars, running, o_vars, p_vars, v_vars, cancel_flag, block_size,
                   limit_bytes, current_offset, io_len, written,
                   stop_due_to_full, dev, sync_log, cancel_offset,
                   short_writes, since_cancel, polls, iterations>>
    /\ io_calls' = io_calls + 1
    /\ UNCHANGED run_outcome

\* variant: the result of sync_all is ignored
WriteSync_unchecked ==
    /\ pc = "w_sync"
    /\ \E sync_ok \in BOOLEAN :
         sync_log' = Append(sync_log, [at |-> current_offset, ok |-> sync_ok])
    /\ WriteFinish(Ok(current_offset), sink_errors,
                   IF has_sink THEN "progress" ELSE "sync")
    /\ BufferRelease
    /\ UNCHANGED <<cfg_vars, running, o_vars, p_vars, v_vars, cancel_flag, block_size,
                   limit_bytes, current_offset, io_len, written,
                   stop_due_to_full, dev, last_write, cancel_offset, w_exit,
                   short_writes, since_cancel, polls, iterations>>
    /\ UNCHANGED io_calls
    /\ UNCHANGED run_outcome

\* write.rs 135-168: sync, then the final progress event and the result
WriteSync ==
    /\ pc = "w_sync"
    /\ \E sync_ok \in BOOLEAN :
         /\ sync_log' = Append(sync_log, [at |-> current_offset, ok |-> sync_ok])
         /\ IF sync_ok
            THEN WriteFinish(Ok(current_offset), sink_errors,
                             IF has_sink THEN "progress" ELSE "sync")
            ELSE WriteFinish(Err("SyncFailed"),
                             emit_error(has_sink, sink_errors,
                                        [what |-> "sync",
                                         offset |-> current_offset]),
                             IF has_sink THEN "sink_error" ELSE "sync")
    /\ BufferRelease
    /\ UNCHANGED <<cfg_vars, running, o_vars, p_vars, v_vars, cancel_flag, block_size,
                   limit_bytes, current_offset, io_len, written,
                   stop_due_to_full, dev, last_write, cancel_offset, w_exit,
                   short_writes, since_cancel, polls, iterations>>
    /\ UNCHANGED io_calls
    /\ UNCHANGED run_outcome

\* ------------------------------------------- the target between two phases
\* the device did not keep a written block: it reads back changed ("altered",
\* not all zeros) or as zeros
Corrupt ==
    /\ pc = "w_done" /\ write_result.ok
    /\ corrupt_count < MaxCorrupt
    /\ \E i \in 1..Len(dev), k \in {"altered", "zero"} :
         /\ dev[i].kind = "stream"
         /\ dev' = [dev EXCEPT ![i].kind = k]
    /\ corrupt_count' = corrupt_count + 1
    /\ UNCHANGED <<cfg_vars, running, b_vars, v_block_size_cfg, o_vars, p_vars, w_vars, cancel_flag, pc, block_size,
                   current_offset, io_len, sink_errors, last_event, since_cancel, polls, iterations, total_bytes, file_pos,
                   mismatch_blocks, failed_bytes, read_error_blocks, valid_bytes,
                   sample_status, verify_result, v_exit, worst_seen>>
    /\ UNCHANGED io_calls
    /\ UNCHANGED run_outcome

\* ------------------------------------------------------------ verify phase
VerifyFinish(res, errors, ev) ==
    /\ pc' = "v_done"
    /\ verify_result' = res
    /\ sink_errors' = errors
    /\ last_event' = ev

\* mod.rs 20-33: the verify phase runs on a DriveInspector of its own; the
\* caller may have built it with another block size than the writer's
InspectorConfigs(cfg) == BlockSizeConfigs

\* verify.rs 23-45: run_verify_phase(total) on the bytes the write returned
\* or, called on its own, on a count the caller supplies
VerifyStart ==
    /\ \/ /\ pc = "w_done" /\ write_result.ok
          /\ total_bytes' = write_result.val
       \/ /\ pc = "idle"
          /\ total_bytes' \in DirectTotals
    /\ v_block_size_cfg' \in InspectorConfigs(block_size_cfg)
    /\ \E open_ok \in {b \in BOOLEAN : b => target_exists}, alloc_ok \in BOOLEAN :
         LET bs == resolve_block_size(v_block_size_cfg')
         IN
         IF ~bs.ok THEN
             /\ VerifyFinish(Err(bs.kind), sink_errors, last_event)
             /\ target_opened' = FALSE
             /\ UNCHANGED <<block_size, b_vars>>
         ELSE IF total_bytes_unaligned(total_bytes') THEN
             /\ VerifyFinish(Err("InvalidInput"), sink_errors, last_event)
             /\ target_opened' = FALSE
             /\ UNCHANGED <<block_size, b_vars>>
         ELSE IF ~open_ok THEN
             /\ VerifyFinish(Err("OpenFailed"),
                             emit_error(has_sink, sink_errors,
                                        [what |-> "open_read", offset |-> 0]),
                             IF has_sink THEN "sink_error" ELSE last_event)
             /\ target_opened' = TRUE
             /\ UNCHANGED <<block_size, b_vars>>
         ELSE IF ~alloc_ok THEN
             /\ VerifyFinish(Err("Other"), sink_errors, last_event)
             /\ target_opened' = TRUE
             /\ UNCHANGED <<block_size, b_vars>>
         ELSE
             /\ pc' = "v_loop"
             /\ target_opened' = TRUE
             /\ block_size' = bs.val
             /\ BufferAcquire
             /\ UNCHANGED <<verify_result, sink_errors, last_event>>
    /\ current_offset' = 0
    /\ file_pos' = 0
    /\ mismatch_blocks' = 0
    /\ read_error_blocks' = 0
    /\ failed_bytes' = NoFailedBytes
    /\ valid_bytes' = 0
    /\ sample_status' = "None"
    /\ worst_seen' = 0
    /\ v_exit' = "none"
    /\ io_len' = 0
    /\ since_cancel' = 0
    /\ polls' = 0
    /\ iterations' = 0
    /\ written' = 0
    /\ short_writes' = 0
    /\ last_write' = "none"
    /\ cancel_offset' = 0
    /\ UNCHANGED <<cfg_vars, running, target_exists, ui_event, p_vars, cancel_flag, dev, corrupt_count,
                   limit_bytes, stop_due_to_full, write_result, sync_log,
                   w_exit>>
    /\ io_calls' = 0
    /\ UNCHANGED run_outcome

\* variant: the token is loaded only on every second block
VerifyLoopHead_skips ==
    /\ pc = "v_loop"
    /\ polls' = IF current_offset < total_bytes /\ has_cancel /\ iterations % 2 = 0
                THEN polls + 1 ELSE polls
    /\ IF current_offset < total_bytes
          /\ ~(iterations % 2 = 0 /\ should_cancel(has_cancel, cancel_flag))
       THEN /\ pc' = "v_read"
            /\ io_len' = Min(total_bytes - current_offset, block_size)
            /\ iterations' = iterations + 1
            /\ UNCHANGED v_exit
       ELSE /\ pc' = "v_report"
            /\ v_exit' = IF current_offset < total_bytes THEN "cancel" ELSE "complete"
            /\ UNCHANGED <<io_len, iterations>>
    /\ UNCHANGED <<cfg_vars, running, b_vars, v_block_size_cfg, o_vars, p_vars, w_vars, cancel_flag, block_size, current_offset,
                   dev, sink_errors, last_event, since_cancel,
                   total_bytes, file_pos, mismatch_blocks, failed_bytes, read_error_blocks,
                   valid_bytes, sample_status, verify_result, worst_seen,
                   corrupt_count>>
    /\ UNCHANGED io_calls
    /\ UNCHANGED run_outcome

\* verify.rs 46-49: the loop condition and the length of the next block
VerifyLoopHead ==
    /\ pc = "v_loop"
    /\ polls' = IF current_offset < total_bytes /\ has_cancel
                THEN polls + 1 ELSE polls
    /\ IF current_offset < total_bytes /\ ~should_cancel(has_cancel, cancel_flag)
       THEN /\ pc' = "v_read"
            /\ io_len' = Min(total_bytes - current_offset, block_size)
            /\ iterations' = iterations + 1
            /\ UNCHANGED v_exit
       ELSE /\ pc' = "v_report"
            /\ v_exit' = IF current_offset < total_bytes THEN "cancel" ELSE "complete"
            /\ UNCHANGED <<io_len, iterations>>
    /\ UNCHANGED <<cfg_vars, running, b_vars, v_block_size_cfg, o_vars, p_vars, w_vars, cancel_flag, block_size, current_offset,
                   dev, sink_errors, last_event, since_cancel,
                   total_bytes, file_pos, mismatch_blocks, failed_bytes, read_error_blocks,
                   valid_bytes, sample_status, verify_result, worst_seen,
                   corrupt_count>>
    /\ UNCHANGED io_calls
    /\ UNCHANGED run_outcome

\* variant: a block that mismatched is counted as valid as well
VerifyReadOk_counts_valid ==
    /\ pc = "v_read"
    /\ file_pos + io_len <= DevSize(dev)
    /\ LET buf == ReadPieces(dev, file_pos, io_len)
           matched == verify_block(current_offset, buf)
           status == analyze_failure_sample(current_offset, io_len, buf)
       IN /\ valid_bytes' = valid_bytes + io_len
          /\ mismatch_blocks' = IF matched THEN mismatch_blocks
                                ELSE mismatch_blocks + 1
          /\ failed_bytes' = IF matched THEN failed_bytes
                             ELSE [failed_bytes EXCEPT !.mismatch = @ + io_len]
          /\ sample_status' = IF matched THEN sample_status
                              ELSE retain_sample(sample_status, status)
          /\ worst_seen' = IF ~matched /\ SampleSeverity(status) > worst_seen
                           THEN SampleSeverity(status) ELSE worst_seen
    /\ current_offset' = current_offset + io_len
    /\ file_pos' = file_pos + io_len
    /\ since_cancel' = IF cancel_flag THEN since_cancel + io_len ELSE 0
    /\ \E emit \in BOOLEAN :
         last_event' = IF emit /\ has_sink THEN "progress" ELSE "read"
    /\ pc' = "v_loop"
    /\ UNCHANGED <<cfg_vars, running, b_vars, v_block_size_cfg, o_vars, p_vars, w_vars, cancel_flag, block_size, io_len, dev,
                   sink_errors, polls, iterations, total_bytes,
                   read_error_blocks, verify_result, v_exit, corrupt_count>>
    /\ io_calls' = io_calls + 1
    /\ UNCHANGED run_outcome

\* verify.rs 51-53, 78-144: the block was read; compare, tally, advance
VerifyReadOk ==
    /\ pc = "v_read"
    /\ file_pos + io_len <= DevSize(dev)
    /\ LET buf == ReadPieces(dev, file_pos, io_len)
           matched == verify_block(current_offset, buf)
           status == analyze_failure_sample(current_offset, io_len, buf)
       IN /\ valid_bytes' = IF matched THEN valid_bytes + io_len ELSE valid_bytes
          /\ mismatch_blocks' = IF matched THEN mismatch_blocks
                                ELSE mismatch_blocks + 1
          /\ failed_bytes' = IF matched THEN failed_bytes
                             ELSE [failed_bytes EXCEPT !.mismatch = @ + io_len]
          /\ sample_status' = IF matched THEN sample_status
                              ELSE retain_sample(sample_status, status)
          /\ worst_seen' = IF ~matched /\ SampleSeverity(status) > worst_seen
                           THEN SampleSeverity(status) ELSE worst_seen
    /\ current_offset' = current_offset + io_len
    /\ file_pos' = file_pos + io_len
    /\ since_cancel' = IF cancel_flag THEN since_cancel + io_len ELSE 0
    /\ \E emit \in BOOLEAN :
         last_event' = IF emit /\ has_sink THEN "progress" ELSE "read"
    /\ pc' = "v_loop"
    /\ UNCHANGED <<cfg_vars, running, b_vars, v_block_size_cfg, o_vars, p_vars, w_vars, cancel_flag, block_size, io_len, dev,
                   sink_errors, polls, iterations, total_bytes,
                   read_error_blocks, verify_result, v_exit, corrupt_count>>
    /\ io_calls' = io_calls + 1
    /\ UNCHANGED run_outcome

\* verify.rs 54-59: read_exact failed; where the handle stands is unknown
VerifyReadErr ==
    /\ pc = "v_read"
    /\ read_error_blocks < MaxReadFaults
    /\ read_error_blocks' = read_error_blocks + 1
    /\ failed_bytes' = [failed_bytes EXCEPT !.read_error = @ + io_len]
    /\ \E p \in {file_pos, file_pos + io_len} : file_pos' = p
    /\ since_cancel' = IF cancel_flag THEN since_cancel + (file_pos' - file_pos) ELSE 0
    /\ last_event' = "read"
    /\ pc' = "v_seek"
    /\ UNCHANGED <<cfg_vars, running, b_vars, v_block_size_cfg, o_vars, p_vars, w_vars, cancel_flag, block_size, current_offset,
                   io_len, dev, sink_errors, polls, iterations,
                   total_bytes, mismatch_blocks, valid_bytes, sample_status,
                   verify_result, v_exit, worst_seen, corrupt_count>>
    /\ io_calls' = io_calls + 1
    /\ UNCHANGED run_outcome

\* variant: a read error ends the loop even though the seek succeeded
VerifySeekOk_break ==
    /\ pc = "v_seek"
    /\ file_pos' = current_offset + io_len
    /\ pc' = "v_report"
    /\ UNCHANGED <<cfg_vars, running, b_vars, v_block_size_cfg, o_vars, p_vars, w_vars, cancel_flag, block_size,
                   current_offset, io_len, dev, sink_errors, last_event,
                   since_cancel, polls, iterations, total_bytes,
                   mismatch_blocks, failed_bytes, read_error_blocks, valid_bytes,
                   sample_status, verify_result, v_exit, worst_seen,
                   corrupt_count>>
    /\ UNCHANGED io_calls
    /\ UNCHANGED run_outcome

\* verify.rs 60-75: the seek past the unreadable block succeeded
VerifySeekOk ==
    /\ pc = "v_seek"
    /\ file_pos' = current_offset + io_len
    /\ current_offset' = current_offset + io_len
    /\ pc' = "v_loop"
    /\ UNCHANGED <<cfg_vars, running, b_vars, v_block_size_cfg, o_vars, p_vars, w_vars, cancel_flag, block_size, io_len, dev,
                   sink_errors, last_event, since_cancel, polls,
                   iterations, total_bytes, mismatch_blocks, failed_bytes, read_error_blocks,
                   valid_bytes, sample_status, verify_result, v_exit,
                   worst_seen, corrupt_count>>
    /\ UNCHANGED io_calls
    /\ UNCHANGED run_outcome

\* variant: the seek failure is reported but the loop goes on
VerifySeekErr_continue ==
    /\ pc = "v_seek"
    /\ sink_errors' = emit_error(has_sink, sink_errors,
                                 [what |-> "seek", offset |-> current_offset])
    /\ last_event' = IF has_sink THEN "sink_error" ELSE last_event
    /\ v_exit' = "seek_failure"
    /\ current_offset' = current_offset + io_len
    /\ pc' = "v_loop"
    /\ UNCHANGED <<cfg_vars, running, b_vars, v_block_size_cfg, o_vars, p_vars, w_vars, cancel_flag, block_size, io_len,
                   dev, since_cancel, polls, iterations, total_bytes, file_pos,
                   mismatch_blocks, failed_bytes, read_error_blocks, valid_bytes,
                   sample_status, verify_result, worst_seen, corrupt_count>>
    /\ UNCHANGED io_calls
    /\ UNCHANGED run_outcome

\* verify.rs 60-72: the seek failed; report it and leave the loop
VerifySeekErr ==
    /\ pc = "v_seek"
    /\ sink_errors' = emit_error(has_sink, sink_errors,
                                 [what |-> "seek", offset |-> current_offset])
    /\ last_event' = IF has_sink THEN "sink_error" ELSE last_event
    /\ v_exit' = "seek_failure"
    /\ pc' = "v_report"
    /\ UNCHANGED <<cfg_vars, running, b_vars, v_block_size_cfg, o_vars, p_vars, w_vars, cancel_flag, block_size, current_offset,
                   io_len, dev, since_cancel, polls, iterations,
                   total_bytes, file_pos, mismatch_blocks, failed_bytes, read_error_blocks,
                   valid_bytes, sample_status, verify_result, worst_seen,
                   corrupt_count>>
    /\ UNCHANGED io_calls
    /\ UNCHANGED run_outcome

\* variant: the phase resets the token before it returns
VerifyReport_clears_token ==
    /\ pc = "v_report"
    /\ VerifyFinish(Ok(generate_report(total_bytes, current_offset, valid_bytes,
                                       mismatch_blocks, read_error_blocks,
                                       sample_status)),
                    sink_errors,
                    IF has_sink THEN "progress" ELSE last_event)
    /\ BufferRelease
    /\ cancel_flag' = FALSE
    /\ UNCHANGED <<cfg_vars, running, v_block_size_cfg, o_vars, p_vars, w_vars, block_size, current_offset,
                   io_len, dev, since_cancel, polls, iterations,
                   total_bytes, file_pos, mismatch_blocks, failed_bytes, read_error_blocks,
                   valid_bytes, sample_status, v_exit, worst_seen,
                   corrupt_count>>
    /\ UNCHANGED io_calls
    /\ UNCHANGED run_outcome

\* verify.rs 146-172
VerifyReport ==
    /\ pc = "v_report"
    /\ VerifyFinish(Ok(generate_report(total_bytes, current_offset, valid_bytes,
                                       mismatch_blocks, read_error_blocks,
                                       sample_status)),
                    sink_errors,
                    IF has_sink THEN "progress" ELSE last_event)
    /\ BufferRelease
    /\ UNCHANGED <<cfg_vars, running, v_block_size_cfg, o_vars, p_vars, w_vars, cancel_flag, block_size, current_offset,
                   io_len, dev, since_cancel, polls, iterations,
                   total_bytes, file_pos, mismatch_blocks, failed_bytes, read_error_blocks,
                   valid_bytes, sample_status, v_exit, worst_seen,
                   corrupt_count>>
    /\ UNCHANGED io_calls
    /\ UNCHANGED run_outcome

\* ------------------------------------------------------------- quick probe
ProbeStepChoices == {1, 2, 3}

ProbeFinish(res) ==
    /\ pc' = "p_done"
    /\ probe_result' = res

\* probe.rs 15-58: run_quick_probe_phase(limit_mb, steps) up to the first write
ProbeStart ==
    /\ pc = "idle"
    /\ \E st \in ProbeStepChoices, open_ok, alloc_ok \in BOOLEAN :
         LET bs == resolve_block_size(block_size_cfg)
             lim == align_down_u64(limit_mb * 1024 * 1024, DIRECT_IO_ALIGNMENT)
             anchors == probe_anchors(lim, bs.val, st)
         IN
         /\ steps' = st
         /\ IF ~parent_exists THEN
                /\ ProbeFinish(Err("NotFound"))
                /\ UNCHANGED <<dev, block_size, limit_bytes, offsets,
                               target_exists, target_opened, b_vars>>
            ELSE IF ~bs.ok THEN
                /\ ProbeFinish(Err(bs.kind))
                /\ UNCHANGED <<dev, block_size, limit_bytes, offsets,
                               target_exists, target_opened, b_vars>>
            ELSE IF limit_mb = 0 THEN
                /\ ProbeFinish(Ok(NoReport))
                /\ UNCHANGED <<dev, block_size, limit_bytes, offsets,
                               target_exists, target_opened, b_vars>>
            ELSE IF steps_too_few(st) THEN
                /\ ProbeFinish(Err("InvalidInput"))
                /\ UNCHANGED <<dev, block_size, limit_bytes, offsets,
                               target_exists, target_opened, b_vars>>
            ELSE IF lim < bs.val THEN
                /\ ProbeFinish(Err("InvalidInput"))
                /\ UNCHANGED <<dev, block_size, limit_bytes, offsets,
                               target_exists, target_opened, b_vars>>
            ELSE IF compute_probe_offsets(lim, bs.val, st) = <<>> THEN
                /\ ProbeFinish(Ok(NoReport))
                /\ UNCHANGED <<dev, block_size, limit_bytes, offsets,
                               target_exists, target_opened, b_vars>>
            ELSE IF ~open_ok THEN
                /\ ProbeFinish(Err("OpenFailed"))
                /\ target_opened' = TRUE
                /\ UNCHANGED <<dev, block_size, limit_bytes, offsets,
                               target_exists, b_vars>>
            ELSE IF ~alloc_ok THEN
                /\ ProbeFinish(Err("Other"))
                /\ dev' = <<>>
                /\ target_exists' = TRUE
                /\ target_opened' = TRUE
                /\ UNCHANGED <<block_size, limit_bytes, offsets, b_vars>>
            ELSE
                /\ pc' = "p_write"
                /\ dev' = <<>>
                /\ target_exists' = TRUE
                /\ target_opened' = TRUE
                /\ block_size' = bs.val
                /\ limit_bytes' = lim
                /\ offsets' = anchors
                /\ BufferAcquire
                /\ UNCHANGED probe_result
    /\ anchor_idx' = 1
    /\ UNCHANGED <<cfg_vars, running, ui_event, v_vars, cancel_flag, current_offset, io_len,
                   written, stop_due_to_full, write_result, sink_errors,
                   last_event, sync_log, last_write, cancel_offset, w_exit,
                   short_writes, since_cancel, polls, iterations>>
    /\ UNCHANGED io_calls
    /\ UNCHANGED run_outcome

\* probe.rs 60-64: seek to the anchor, fill the buffer for it, write_all
ProbeWriteAnchor ==
    /\ pc = "p_write"
    /\ anchor_idx <= Len(offsets)
    /\ dev' = WriteAt(dev, offsets[anchor_idx], offsets[anchor_idx], 0, block_size)
    /\ anchor_idx' = anchor_idx + 1
    /\ UNCHANGED <<cfg_vars, running, b_vars, o_vars, v_vars, w_vars, cancel_flag, pc, block_size,
                   current_offset, io_len, sink_errors, last_event,
                   since_cancel, polls, iterations, steps, offsets,
                   probe_result>>
    /\ UNCHANGED io_calls
    /\ UNCHANGED run_outcome

\* probe.rs 65-71: sync, reopen for reading, reset the tallies
ProbeSync ==
    /\ pc = "p_write"
    /\ anchor_idx > Len(offsets)
    /\ pc' = "p_read"
    /\ anchor_idx' = 1
    /\ mismatch_blocks' = 0
    /\ read_error_blocks' = 0
    /\ valid_bytes' = 0
    /\ sample_status' = "None"
    /\ worst_seen' = 0
    /\ UNCHANGED <<cfg_vars, running, b_vars, v_block_size_cfg, o_vars, w_vars, cancel_flag, block_size, current_offset,
                   io_len, dev, sink_errors, last_event, since_cancel, polls,
                   iterations, total_bytes, file_pos, verify_result, v_exit,
                   corrupt_count, steps, offsets, probe_result, failed_bytes>>
    /\ UNCHANGED io_calls
    /\ UNCHANGED run_outcome

\* probe.rs 61, 63, 65, 67, 74: a seek, write, sync or open that fails is
\* returned to the caller as it is
ProbeIoError ==
    /\ pc \in {"p_write", "p_read"}
    /\ pc = "p_read" => anchor_idx <= Len(offsets)
    /\ ProbeFinish(Err("Other"))
    /\ BufferRelease
    /\ UNCHANGED <<cfg_vars, running, o_vars, v_vars, w_vars, cancel_flag, block_size,
                   current_offset, io_len, dev, sink_errors, last_event,
                   since_cancel, polls, iterations, steps, offsets, anchor_idx>>
    /\ UNCHANGED io_calls
    /\ UNCHANGED run_outcome

\* the device did not keep what was written at an anchor: the block reads
\* back changed, as zeros, or with the bytes written for another anchor
ProbeFault ==
    /\ pc = "p_read" /\ anchor_idx = 1
    /\ corrupt_count < MaxCorrupt
    /\ \E i \in 1..Len(offsets) :
         \E e \in {Extent(offsets[i], 0, block_size, "altered"),
                   Extent(0, 0, block_size, "zero")}
                  \cup {Extent(offsets[j], 0, block_size, "stream") :
                            j \in (1..Len(offsets)) \ {i}} :
             dev' = PutExtent(dev, offsets[i], e)
    /\ corrupt_count' = corrupt_count + 1
    /\ UNCHANGED <<cfg_vars, running, b_vars, v_block_size_cfg, o_vars, p_vars, w_vars, cancel_flag, pc, block_size,
                   current_offset, io_len, sink_errors, last_event,
                   since_cancel, polls, iterations, total_bytes, file_pos,
                   mismatch_blocks, failed_bytes, read_error_blocks, valid_bytes,
                   sample_status, verify_result, v_exit, worst_seen>>
    /\ UNCHANGED io_calls
    /\ UNCHANGED run_outcome

\* probe.rs 75-79: read_exact at the anchor failed
ProbeReadErr ==
    /\ pc = "p_read"
    /\ anchor_idx <= Len(offsets)
    /\ read_error_blocks < MaxReadFaults
    /\ read_error_blocks' = read_error_blocks + 1
    /\ anchor_idx' = anchor_idx + 1
    /\ UNCHANGED <<cfg_vars, running, b_vars, v_block_size_cfg, o_vars, w_vars, cancel_flag, pc, block_size,
                   current_offset, io_len, dev, sink_errors, last_event,
                   since_cancel, polls, iterations, total_bytes, file_pos,
                   mismatch_blocks, failed_bytes, valid_bytes, sample_status, verify_result,
                   v_exit, worst_seen, corrupt_count, steps, offsets,
                   probe_result>>
    /\ UNCHANGED io_calls
    /\ UNCHANGED run_outcome

\* probe.rs 81-93: the anchor was read back
ProbeReadOk ==
    /\ pc = "p_read"
    /\ anchor_idx <= Len(offsets)
    /\ offsets[anchor_idx] + block_size <= DevSize(dev)
    /\ LET offset == offsets[anchor_idx]
           buf == ReadPieces(dev, offset, block_size)
           matched == verify_block(offset, buf)
           other == matches_other_anchor(offsets, offset, buf)
       IN IF matched
          THEN /\ valid_bytes' = valid_bytes + block_size
               /\ anchor_idx' = anchor_idx + 1
               /\ UNCHANGED <<mismatch_blocks, sample_status, worst_seen, pc>>
          ELSE /\ mismatch_blocks' = mismatch_blocks + 1
               /\ UNCHANGED valid_bytes
               /\ IF other
                  THEN /\ sample_status' = "FakeCapacity"
                       /\ worst_seen' = status_severity("FakeCapacity")
                       /\ pc' = "p_report"
                       /\ UNCHANGED anchor_idx
                  ELSE /\ sample_status' = IF sample_status = "None"
                                           THEN "PhysicalCorruption"
                                           ELSE sample_status
                       /\ worst_seen' =
                            IF worst_seen < status_severity("PhysicalCorruption")
                            THEN status_severity("PhysicalCorruption")
                            ELSE worst_seen
                       /\ anchor_idx' = anchor_idx + 1
                       /\ UNCHANGED pc
    /\ UNCHANGED <<cfg_vars, running, b_vars, v_block_size_cfg, o_vars, w_vars, cancel_flag, block_size, current_offset,
                   io_len, dev, sink_errors, last_event, since_cancel, polls,
                   iterations, total_bytes, file_pos, read_error_blocks,
                   verify_result, v_exit, corrupt_count, steps, offsets,
                   probe_result, failed_bytes>>
    /\ UNCHANGED io_calls
    /\ UNCHANGED run_outcome

\* probe.rs 96-115
ProbeReport ==
    /\ \/ pc = "p_report"
       \/ pc = "p_read" /\ anchor_idx > Len(offsets)
    /\ LET tested_bytes == Len(offsets) * block_size
           report == generate_report(limit_bytes, tested_bytes, valid_bytes,
                                     mismatch_blocks, read_error_blocks,
                                     sample_status)
       IN ProbeFinish(IF report.error_count = 0 THEN Ok(NoReport)
                      ELSE Ok(SomeReport(report)))
    /\ BufferRelease
    /\ UNCHANGED <<cfg_vars, running, o_vars, v_vars, w_vars, cancel_flag, block_size,
                   current_offset, io_len, dev, sink_errors, last_event,
                   since_cancel, polls, iterations, steps, offsets, anchor_idx>>
    /\ UNCHANGED io_calls
    /\ UNCHANGED run_outcome

\* ------------------------------------------ the front end's worker closure
\* main.rs 99-156: what the worker does with the result of the write phase
\* (an error, or nothing written) or of the verify phase that followed
SessionEnd ==
    /\ GuiSession
    /\ IF pc = "w_done"
       THEN (IF write_result.ok THEN write_result.val = 0 ELSE TRUE)
       ELSE pc = "v_done" /\ write_result.ok /\ write_result.val > 0
    /\ LET res == IF pc = "w_done" THEN write_result ELSE verify_result
           phase == IF pc = "w_done" THEN "write_phase_failed"
                    ELSE "verify_phase_failed"
       IN IF res.ok
          THEN /\ ui_event' = UiEvent("DIAGNOSIS_COMPLETE",
                                      IF pc = "w_done" THEN "DataLoss"
                                      ELSE res.val.status)
               /\ UNCHANGED <<sink_errors, last_event>>
          ELSE IF res.kind = "Interrupted"
          THEN /\ ui_event' = UiEvent("DIAGNOSIS_CANCELLED", "None")
               /\ UNCHANGED <<sink_errors, last_event>>
          ELSE /\ sink_errors' = emit_error(TRUE, sink_errors,
                                            [what |-> phase, offset |-> 0])
               /\ last_event' = "sink_error"
               /\ UNCHANGED ui_event
    /\ pc' = "s_done"
    /\ running' = FALSE
    /\ cancel_flag' = FALSE
    /\ UNCHANGED <<cfg_vars, b_vars, p_vars, v_vars, w_vars, target_exists,
                   target_opened, block_size, current_offset, io_len, dev,
                   since_cancel, polls, iterations>>
    /\ UNCHANGED io_calls
    /\ run_outcome' = outcome_of(write_result, verify_result)
Next ==
    \/ RequestCancel
    \/ WriteStart
    \/ WriteLoopHead
    \/ WriteFull
    \/ WriteOk
    \/ WriteFatal
    \/ WriteSync
    \/ Corrupt
    \/ VerifyStart
    \/ VerifyLoopHead
    \/ VerifyReadOk
    \/ VerifyReadErr
    \/ VerifySeekOk
    \/ VerifySeekErr
    \/ VerifyReport
    \/ ProbeStart
    \/ ProbeWriteAnchor
    \/ ProbeSync
    \/ ProbeIoError
    \/ ProbeFault
    \/ ProbeReadErr
    \/ ProbeReadOk
    \/ ProbeReport
    \/ SessionEnd

Spec == Init /\ [][Next]_vars

\* variant: the verify phase is started whatever the write phase returned
RunVerify_unchecked ==
    /\ pc = "w_done"
    /\ write_result.ok
    /\ VerifyStart
    /\ v_block_size_cfg' = block_size_cfg

\* app.rs 169 and 185-187, main.rs 100-101 and 113-117: the verify phase of
\* the same inspector is called with bytes_written when that is not zero
RunVerify ==
    /\ pc = "w_done"
    /\ write_result.ok /\ write_result.val > 0
    /\ VerifyStart
    /\ v_block_size_cfg' = block_size_cfg

\* app.rs 166-191: run_write_verify returns the error of the write phase,
\* the report for nothing written, or what the verify phase returned
RunReturn ==
    /\ ~has_cancel /\ ~has_sink
    /\ IF pc = "w_done"
       THEN (IF write_result.ok THEN write_result.val = 0 ELSE TRUE)
       ELSE pc = "v_done" /\ write_result.ok /\ write_result.val > 0
    /\ run_outcome' = outcome_of(write_result, verify_result)
    /\ pc' = "r_done"
    /\ UNCHANGED <<cfg_vars, running, cancel_flag, b_vars, p_vars, v_vars,
                   w_vars, o_vars, block_size, current_offset, io_len, dev,
                   written, sink_errors, last_event, since_cancel, polls,
                   iterations, io_calls>>

\* the configurations the two orchestrators run the phases with
InitRun ==
    /\ Init
    /\ (~has_cancel /\ ~has_sink) \/ GuiSession

\* run_write_verify and the worker of start_diagnosis
NextRun ==
    \/ RequestCancel
    \/ WriteStart
    \/ WriteLoopHead
    \/ WriteFull
    \/ WriteOk
    \/ WriteFatal
    \/ WriteSync
    \/ RunVerify
    \/ VerifyLoopHead
    \/ VerifyReadOk
    \/ VerifyReadErr
    \/ VerifySeekOk
    \/ VerifySeekErr
    \/ VerifyReport
    \/ RunReturn
    \/ SessionEnd

SpecRun == InitRun /\ [][NextRun]_vars

\* write.rs 72-168, verify.rs 46-172: a phase is one synchronous loop; every
\* call it makes returns, and the statement after it runs
LoopStep ==
    \/ WriteLoopHead
    \/ WriteFull
    \/ WriteOk
    \/ WriteFatal
    \/ WriteSync
    \/ VerifyLoopHead
    \/ VerifyReadOk
    \/ VerifyReadErr
    \/ VerifySeekOk
    \/ VerifySeekErr
    \/ VerifyReport

\* app.rs 166-188, main.rs 96-114: both phases run on the same inspector
VerifySameInspector == VerifyStart /\ v_block_size_cfg' = block_size_cfg

\* the two phases on their own, with the orchestrator's token
NextLive ==
    \/ RequestCancel
    \/ WriteStart
    \/ VerifySameInspector
    \/ LoopStep

SpecLive == Init /\ [][NextLive]_vars /\ WF_vars(LoopStep)

\* ------------------------------------------- calls on core_logic alone
MaxCalls == 3

\* 4 GiB
FourGiB == <<0, 0, 0, 0, 1, 0, 0, 0>>
\* u64::MAX
MaxOffset == <<255, 255, 255, 255, 255, 255, 255, 255>>

CoreOffsets == <<W(0), W(100), W(200), FourGiB, MaxOffset>>
CoreLens == {0, 5, 16}

\* two offsets and a buffer length; the last is the block of 256 bytes at
\* offset 500 of test_verification_logic
CoreInputs ==
    {[a |-> CoreOffsets[ij[1]], b |-> CoreOffsets[ij[2]], len |-> n] :
        ij \in {p \in (1..Len(CoreOffsets)) \X (1..Len(CoreOffsets)) :
                    p[1] < p[2]},
        n \in CoreLens}
    \cup {[a |-> W(500), b |-> W(500), len |-> 256]}

\* no phase runs: the engine stays as constructed
EngineParked ==
    /\ EngineInit
    /\ block_size_cfg = DefaultBlockSize /\ limit_mb = 0
    /\ ~has_cancel /\ ~has_sink /\ ~parent_exists /\ ~target_exists

\* the caller's buffer is vec![0u8; len]
InitCore ==
    /\ EngineParked
    /\ c_in \in CoreInputs
    /\ c_buf = [i \in 1..c_in.len |-> 0]
    /\ c_off = <<>>
    /\ c_altered = FALSE
    /\ c_rng = SplitMix64_new(W(0))
    /\ c_first = {}
    /\ c_last = [op |-> "none"]
    /\ c_calls = 0
    /\ GuiParked /\ running = FALSE
    /\ ResolveParked

\* the engine apart from the token
ex_vars == <<block_size_cfg, limit_mb, has_cancel, has_sink, pc,
            block_size, limit_bytes, current_offset, io_len, written,
            stop_due_to_full, write_result, dev, sink_errors, last_event,
            sync_log, last_write, cancel_offset, w_exit, short_writes,
            since_cancel, polls, iterations, io_calls, total_bytes, file_pos,
            mismatch_blocks, failed_bytes, read_error_blocks, valid_bytes,
            sample_status,
            verify_result, v_exit, worst_seen, corrupt_count, steps, offsets,
            anchor_idx, probe_result, parent_exists, target_exists,
            target_opened, ui_event, run_outcome, v_block_size_cfg, buffer,
            buf_allocs, buf_frees>>

e_vars == <<ex_vars, cancel_flag, running, g_vars, r_vars>>

\* the first result of fill_block for an offset and a length is kept,
\* with the seed generate_seed gives for the offset
Remember(first, offset, bytes) ==
    IF \E e \in first : e.offset = offset /\ e.len = Len(bytes) THEN first
    ELSE first \cup {[offset |-> offset, len |-> Len(bytes), bytes |-> bytes,
                      seed |-> generate_seed(offset)]}

\* the call before this one
Previous(last) ==
    IF last.op = "none" THEN [op |-> "none"]
    ELSE [op |-> last.op, offset |-> last.offset]

\* the caller's buffer after fill_block ran as run for offset o
Filled(o, run) ==
    /\ c_buf' = run.bytes
    /\ c_rng' = run.rng
    /\ c_first' = Remember(c_first, o, run.bytes)
    /\ c_off' = o
    /\ c_last' = [op |-> "fill", offset |-> o,
                  again |-> \E e \in c_first :
                              e.offset = o /\ e.len = Len(c_buf),
                  prev |-> Previous(c_last)]

\* variant: fill_block goes on with the generator the latest call left
CoreFill_resumes ==
    /\ c_calls < MaxCalls
    /\ \E o \in {c_in.a, c_in.b} :
         Filled(o, DrawBytes(c_rng, Len(c_buf)))
    /\ c_altered' = FALSE
    /\ c_calls' = c_calls + 1
    /\ UNCHANGED <<e_vars, c_in>>

\* core_logic.rs 69-76: fill_block(o, &mut buf)
CoreFill ==
    /\ c_calls < MaxCalls
    /\ \E o \in {c_in.a, c_in.b} :
         Filled(o, fill_block_run(o, Len(c_buf)))
    /\ c_altered' = FALSE
    /\ c_calls' = c_calls + 1
    /\ UNCHANGED <<e_vars, c_in>>

\* the indexes at which CoreAlter changes a buffer of n bytes
AlterChoices(n) ==
    {S \in {{0}, {10}, {n - 1}, {10, n - 1}} : \A i \in S : 0 <= i /\ i < n}

\* the device returned other bytes than were written: some bytes changed
\* (data[i].wrapping_add(1), as test_verification_logic does), or all zero
CoreAlter ==
    /\ ~c_altered /\ c_last.op = "fill"
    /\ \/ \E S \in AlterChoices(Len(c_buf)) :
            c_buf' = [i \in 1..Len(c_buf) |->
                        IF (i - 1) \in S THEN (c_buf[i] + 1) % 256
                        ELSE c_buf[i]]
       \/ /\ Len(c_buf) > 0
          /\ c_buf' = [i \in 1..Len(c_buf) |-> 0]
    /\ c_altered' = TRUE
    /\ UNCHANGED <<e_vars, c_in, c_off, c_rng, c_first, c_last, c_calls>>

\* the result verify_block returned for offset o
Verified(o, res, rng) ==
    /\ c_last' = [op |-> "verify", offset |-> o, res |-> res]
    /\ c_rng' = rng

\* core_logic.rs 78-89: verify_block(o, &buf)
CoreVerify ==
    /\ c_calls < MaxCalls
    /\ \E o \in {c_in.a, c_in.b} :
         Verified(o, verify_block_bytes(o, c_buf),
                  verify_block_run(o, c_buf).rng)
    /\ c_calls' = c_calls + 1
    /\ UNCHANGED <<e_vars, c_in, c_buf, c_off, c_altered, c_first>>

\* verify.rs 94: the block expected at offset o against the buffer read
Analyzed(o, run) ==
    /\ c_last' = [op |-> "analyze", offset |-> o, expected |-> run.bytes,
                  res |-> analyze_failure_sample_bytes(run.bytes, c_buf)]
    /\ c_rng' = run.rng

\* verify.rs 92-94: the expected block is generated again and compared
\* with the buffer read; core_logic.rs 91-102 for a buffer of another length
CoreAnalyze ==
    /\ c_calls < MaxCalls
    /\ \E o \in {c_in.a, c_in.b}, n \in {Len(c_buf), WordBytes} :
         Analyzed(o, fill_block_run(o, n))
    /\ c_calls' = c_calls + 1
    /\ UNCHANGED <<e_vars, c_in, c_buf, c_off, c_altered, c_first>>

NextCore ==
    \/ CoreFill
    \/ CoreAlter
    \/ CoreVerify
    \/ CoreAnalyze

SpecCore == InitCore /\ [][NextCore]_vars

\* ------------------------------------------- the front end's commands
MaxStarts == 3
MaxStops == 2
\* blocks a session's write phase is asked to write
SessionBlocks == 2

Starts == 1..MaxStarts
Stops == 1..MaxStops

\* owed: a stop_diagnosis call returned Ok while this session's engine was
\* inside a phase, and the session has not polled the token since
NoWorker ==
    [pos |-> "none", left |-> 0, written |-> 0, path |-> "none",
     owed |-> FALSE]

\* a stop_diagnosis call: where it stands, how many start_diagnosis calls
\* had begun when it loaded the running flag, and the session that held
\* the flag when it returned Ok (0: none)
NoStop == [pos |-> "idle", seen |-> 0, target |-> 0]

\* the session that holds the running flag: its start_diagnosis call is
\* between the swap and the spawn, or its worker has not yet reset the flag
Holds(i) ==
    \/ g_start[i] = "swapped"
    \/ g_worker[i].pos \in {"write", "verify", "emit", "reset_running"}

Holder == IF \E i \in Starts : Holds(i) THEN CHOOSE i \in Starts : Holds(i)
          ELSE 0

\* main.rs 173-184: AppState::default(), no command called yet
InitGui ==
    /\ EngineParked /\ CoreParked /\ ResolveParked
    /\ running = FALSE
    /\ g_start = [i \in Starts |-> "idle"]
    /\ g_worker = [i \in Starts |-> NoWorker]
    /\ g_stop = [j \in Stops |-> NoStop]

\* what the commands and the workers share with the engine is the token
gx_vars == <<ex_vars, c_vars, r_vars>>

\* variant: the call goes on whatever the flag was
StartSwap_unchecked(i) ==
    /\ g_start[i] = "idle"
    /\ i > 1 => g_start[i - 1] # "idle"
    /\ g_start' = [g_start EXCEPT ![i] = "swapped"]
    /\ running' = TRUE
    /\ UNCHANGED <<gx_vars, cancel_flag, g_worker, g_stop>>

\* main.rs 79-81: running.swap(true); the call returns an error when the
\* flag was set
StartSwap(i) ==
    /\ g_start[i] = "idle"
    /\ i > 1 => g_start[i - 1] # "idle"
    /\ g_start' = [g_start EXCEPT ![i] = IF running THEN "rejected"
                                         ELSE "swapped"]
    /\ running' = TRUE
    /\ UNCHANGED <<gx_vars, cancel_flag, g_worker, g_stop>>

\* main.rs 83-89 and 159: cancel_flag.store(false), spawn the worker, Ok(())
StartSpawn(i) ==
    /\ g_start[i] = "swapped"
    /\ cancel_flag' = FALSE
    /\ g_worker' = [g_worker EXCEPT ![i] =
                        [pos |-> "write", left |-> SessionBlocks,
                         written |-> 0, path |-> "none",
                         owed |-> FALSE]]
    /\ g_start' = [g_start EXCEPT ![i] = "returned"]
    /\ UNCHANGED <<gx_vars, running, g_stop>>

\* main.rs 96-97 with write.rs 72-132: one turn of the write loop (the token
\* is polled, then a block is written, the device is full, or the write
\* fails), or the end of the phase
WorkerWriteBlock(i) ==
    /\ g_worker[i].pos = "write"
    /\ LET w == [g_worker[i] EXCEPT
                    !.owed = IF g_worker[i].left > 0 THEN FALSE ELSE @]
       IN IF w.left > 0 /\ ~cancel_flag
          THEN \E outcome \in {"ok", "full", "Interrupted", "Other"} :
                 g_worker' = [g_worker EXCEPT ![i] =
                     CASE outcome = "ok" ->
                            [w EXCEPT !.left = w.left - 1,
                                      !.written = w.written + 1]
                       [] outcome = "full" -> [w EXCEPT !.left = 0]
                       [] outcome = "Interrupted" ->
                            [w EXCEPT !.pos = "emit", !.path = "cancelled"]
                       [] outcome = "Other" ->
                            [w EXCEPT !.pos = "emit", !.path = "write_error"]]
          ELSE \E sync_ok \in BOOLEAN :
                 g_worker' = [g_worker EXCEPT ![i] =
                     IF ~sync_ok
                     THEN [w EXCEPT !.pos = "emit", !.path = "write_error"]
                     ELSE IF w.written = 0
                     THEN [w EXCEPT !.pos = "emit", !.path = "complete"]
                     ELSE [w EXCEPT !.pos = "verify", !.left = w.written]]
    /\ UNCHANGED <<gx_vars, running, cancel_flag, g_start, g_stop>>

\* main.rs 113-131 with verify.rs 23-172: the verify phase fails before its
\* loop, or takes one turn of the loop (the token is polled, then a block is
\* read), or returns its report
WorkerVerifyBlock(i) ==
    /\ g_worker[i].pos = "verify"
    /\ LET w == g_worker[i]
           polled == [w EXCEPT !.owed = IF w.left > 0 THEN FALSE ELSE @]
       IN \/ /\ w.left = w.written
             /\ \E kind \in {"Interrupted", "Other"} :
                  g_worker' = [g_worker EXCEPT ![i] =
                      [w EXCEPT !.pos = "emit",
                                !.path = IF kind = "Interrupted"
                                         THEN "cancelled" ELSE "verify_error"]]
          \/ g_worker' = [g_worker EXCEPT ![i] =
                  IF w.left > 0 /\ ~cancel_flag
                  THEN [polled EXCEPT !.left = w.left - 1]
                  ELSE [polled EXCEPT !.pos = "emit", !.path = "complete"]]
    /\ UNCHANGED <<gx_vars, running, cancel_flag, g_start, g_stop>>

\* main.rs 120, 125, 137, 142, 152: the event or the sink error of the
\* path; the inspector and the results are not used after it
WorkerEmit(i) ==
    /\ g_worker[i].pos = "emit"
    /\ g_worker' = [g_worker EXCEPT ![i] =
                        [NoWorker EXCEPT !.pos = "reset_running",
                                         !.path = g_worker[i].path]]
    /\ UNCHANGED <<gx_vars, running, cancel_flag, g_start, g_stop>>

\* main.rs 121, 126, 138, 143, 153: running.store(false)
WorkerResetRunning(i) ==
    /\ g_worker[i].pos = "reset_running"
    /\ running' = FALSE
    /\ g_worker' = [g_worker EXCEPT ![i] =
                        [NoWorker EXCEPT !.pos = "reset_cancel"]]
    /\ UNCHANGED <<gx_vars, cancel_flag, g_start, g_stop>>

\* main.rs 122, 127, 139, 144, 154: cancel_flag.store(false), then return
WorkerResetCancel(i) ==
    /\ g_worker[i].pos = "reset_cancel"
    /\ cancel_flag' = FALSE
    /\ g_worker' = [g_worker EXCEPT ![i].pos = "exited"]
    /\ UNCHANGED <<gx_vars, running, g_start, g_stop>>

\* main.rs 165-167: running.load(); the call returns an error when the flag
\* is not set
StopLoad(j) ==
    /\ g_stop[j].pos = "idle"
    /\ j > 1 => g_stop[j - 1].pos # "idle"
    /\ g_stop' = [g_stop EXCEPT ![j] =
                    [pos |-> IF running THEN "loaded" ELSE "rejected",
                     seen |-> Cardinality({i \in Starts : g_start[i] # "idle"}),
                     target |-> 0]]
    /\ UNCHANGED <<gx_vars, running, cancel_flag, g_start, g_worker>>

\* main.rs 169-170: cancel_flag.store(true), Ok(())
StopStore(j) ==
    /\ g_stop[j].pos = "loaded"
    /\ cancel_flag' = TRUE
    /\ g_stop' = [g_stop EXCEPT ![j].pos = "returned", ![j].target = Holder]
    /\ g_worker' = IF Holder # 0 /\ g_worker[Holder].pos \in {"write", "verify"}
                   THEN [g_worker EXCEPT ![Holder].owed = TRUE]
                   ELSE g_worker
    /\ UNCHANGED <<gx_vars, running, g_start>>

NextGui ==
    \/ \E i \in Starts : StartSwap(i)
    \/ \E i \in Starts : StartSpawn(i)
    \/ \E i \in Starts : WorkerWriteBlock(i)
    \/ \E i \in Starts : WorkerVerifyBlock(i)
    \/ \E i \in Starts : WorkerEmit(i)
    \/ \E i \in Starts : WorkerResetRunning(i)
    \/ \E i \in Starts : WorkerResetCancel(i)
    \/ \E j \in Stops : StopLoad(j)
    \/ \E j \in Stops : StopStore(j)

SpecGui == InitGui /\ [][NextGui]_vars


\* ------------------------------------------- calls on resolve_block_size
\* the sizes resolve_block_size is called with: zero, sizes around one and
\* two alignment units, the configured sizes, and the largest sizes a usize
\* holds
ResolveSizes ==
    (0..30) \cup (4090..4100) \cup (8190..8194) \cup BlockSizeConfigs
    \cup ((USIZE_MAX - 4100)..(USIZE_MAX - 4090))
    \cup ((USIZE_MAX - 5)..USIZE_MAX)

InitResolve ==
    /\ EngineParked /\ CoreParked /\ GuiParked
    /\ running = FALSE
    /\ r_size \in ResolveSizes
    /\ r_res = NoResult

\* direct_io.rs 26-34: resolve_block_size(r_size); where the sum in align_up
\* overflows, a build with overflow checks panics and one without wraps
ResolveCall ==
    /\ r_res = NoResult
    /\ \E overflow_checks \in BOOLEAN :
         r_res' = IF /\ overflow_checks
                     /\ r_size # 0
                     /\ align_up_overflows(r_size, DIRECT_IO_ALIGNMENT)
                  THEN Err("panic")
                  ELSE resolve_block_size(r_size)
    /\ UNCHANGED <<ex_vars, cancel_flag, running, g_vars, c_vars, r_size>>

NextResolve == ResolveCall

SpecResolve == InitResolve /\ [][NextResolve]_vars

\* ======================================================================
\* Properties
\* ======================================================================
InWrite == pc \in {"w_loop", "w_write", "w_sync", "w_done"}
InVerify == pc \in {"v_loop", "v_read", "v_seek", "v_report", "v_done"}

\* the write phase ran to its limit: the device took every write and the
\* sync, never reported full, and no poll found the token set
CleanWrite ==
    /\ limit_mb > 0
    /\ write_result.ok
    /\ ~stop_due_to_full
    /\ w_exit # "cancel"

\* the verify phase ran on an inspector with the writer's block size
SameInspector == v_block_size_cfg = block_size_cfg

\* the verify phase could open the target and allocate its buffer
VerifyEnvOk ==
    verify_result.ok \/ verify_result.kind \notin {"OpenFailed", "Other"}

RECURSIVE KindBytes(_, _, _)
KindBytes(d, k, i) ==
    IF i > Len(d) THEN 0
    ELSE (IF d[i].kind = k THEN d[i].len ELSE 0) + KindBytes(d, k, i + 1)

KindBlocks(d, k) == Cardinality({i \in 1..Len(d) : d[i].kind = k})

\* C1: on a device that stores faithfully and never reports full, without
\* cancellation, run_write_phase(limit_mb) with limit_mb > 0 returns exactly
\* limit_mb * 1,048,576, and run_verify_phase of that count with the same
\* block size reports Healthy, error_count 0,
\* valid_bytes = tested_bytes = total_capacity and health_score 100.
C1_CleanRoundTrip ==
    /\ (pc \in {"w_done"} \cup {"v_loop", "v_read", "v_seek", "v_report", "v_done"}
        /\ CleanWrite)
       => write_result.val = limit_mb * 1048576
    /\ (pc = "v_done" /\ CleanWrite /\ corrupt_count = 0 /\ SameInspector
        /\ read_error_blocks = 0 /\ v_exit # "cancel" /\ VerifyEnvOk)
       => /\ verify_result.ok
          /\ verify_result.val.status = "Healthy"
          /\ verify_result.val.error_count = 0
          /\ verify_result.val.valid_bytes = limit_mb * 1048576
          /\ verify_result.val.tested_bytes = limit_mb * 1048576
          /\ verify_result.val.total_capacity = limit_mb * 1048576
          /\ verify_result.val.health_score.num
               = 100 * verify_result.val.health_score.den

C1_Witness ==
    /\ pc = "v_done" /\ CleanWrite /\ corrupt_count = 0
    /\ read_error_blocks = 0 /\ v_exit # "cancel"
    /\ verify_result.ok
    /\ verify_result.val.status = "Healthy"
    /\ verify_result.val.valid_bytes = 1048576
    /\ Len(dev) > 1

\* C2: after a clean write, if exactly k >= 1 blocks hold altered data that
\* is not all zeros and every read succeeds, run_verify_phase reports
\* error_count = k, status PhysicalCorruption and valid_bytes = total_bytes
\* minus the bytes of the altered blocks, so 0 < health_score < 100 whenever
\* k is less than the number of blocks.
C2_AlteredBlocksCounted ==
    (pc = "v_done" /\ CleanWrite /\ corrupt_count > 0 /\ SameInspector
     /\ KindBlocks(dev, "zero") = 0
     /\ read_error_blocks = 0 /\ v_exit # "cancel" /\ VerifyEnvOk)
    => /\ verify_result.ok
       /\ verify_result.val.error_count = KindBlocks(dev, "altered")
       /\ verify_result.val.status = "PhysicalCorruption"
       /\ verify_result.val.valid_bytes
            = total_bytes - KindBytes(dev, "altered", 1)
       /\ KindBlocks(dev, "altered") < Len(dev)
          => /\ 0 < verify_result.val.health_score.num
             /\ verify_result.val.health_score.num
                  < 100 * verify_result.val.health_score.den

C2_Witness ==
    /\ pc = "v_done" /\ CleanWrite
    /\ KindBlocks(dev, "zero") = 0
    /\ KindBlocks(dev, "altered") = 2
    /\ Len(dev) > 2
    /\ read_error_blocks = 0 /\ v_exit = "complete"
    /\ verify_result.ok
    /\ verify_result.val.error_count = 2
    /\ verify_result.val.status = "PhysicalCorruption"

\* C3: in run_verify_phase a failed block read followed by a successful seek
\* does not end the pass: the failed read raises read_error_blocks by one,
\* the seek advances current_offset by that block's length and control
\* returns to the loop head; a pass that ends without cancellation or seek
\* failure reports tested_bytes = total_capacity.
C3_ReadErrorSkipsOneBlock ==
    [][ /\ (pc = "v_read" /\ pc' = "v_seek")
           => /\ read_error_blocks' = read_error_blocks + 1
              /\ current_offset' = current_offset
        /\ (pc = "v_seek" /\ pc' # "v_seek" /\ v_exit' # "seek_failure")
           => /\ pc' = "v_loop"
              /\ current_offset' = current_offset + io_len
              /\ file_pos' = current_offset'
              /\ read_error_blocks' = read_error_blocks
        /\ (pc = "v_report" /\ pc' = "v_done"
            /\ v_exit \notin {"cancel", "seek_failure"})
           => /\ verify_result'.ok
              /\ verify_result'.val.tested_bytes = total_bytes
              /\ verify_result'.val.total_capacity = total_bytes
      ]_vars

C3_Witness ==
    /\ pc = "v_done" /\ verify_result.ok
    /\ v_exit = "complete"
    /\ read_error_blocks = 2
    /\ verify_result.val.valid_bytes > 0
    /\ verify_result.val.tested_bytes = total_bytes

\* C4: when the seek past an unreadable block fails, the sink gets exactly
\* one message, no further block is read, and the phase returns a report
\* whose tested_bytes is the offset of the unreadable block (less than
\* total_capacity), whose error_count includes that block and whose status
\* is DataLoss or FakeCapacity.
C4_SeekFailureEndsPass ==
    [][ /\ (pc = "v_seek" /\ pc' # "v_seek" /\ v_exit' = "seek_failure")
           => /\ pc' = "v_report"
              /\ has_sink => sink_errors'
                               = <<[what |-> "seek", offset |-> current_offset]>>
              /\ ~has_sink => sink_errors' = <<>>
        /\ (v_exit = "seek_failure")
           => UNCHANGED <<current_offset, file_pos, iterations, sink_errors,
                          read_error_blocks, mismatch_blocks, valid_bytes>>
        /\ (pc = "v_report" /\ pc' = "v_done" /\ v_exit = "seek_failure")
           => /\ verify_result'.ok
              /\ verify_result'.val.tested_bytes = current_offset
              /\ verify_result'.val.tested_bytes < verify_result'.val.total_capacity
              /\ verify_result'.val.error_count
                   = mismatch_blocks + read_error_blocks
              /\ read_error_blocks >= 1
              /\ verify_result'.val.status \in {"DataLoss", "FakeCapacity"}
      ]_vars

C4_Witness ==
    /\ pc = "v_done" /\ v_exit = "seek_failure"
    /\ has_sink /\ Len(sink_errors) = 1
    /\ verify_result.ok
    /\ verify_result.val.tested_bytes > 0
    /\ verify_result.val.status = "FakeCapacity"

InPass == pc \in {"v_loop", "v_read", "v_seek", "v_report", "p_read", "p_report"}

\* C5: within one verify pass and one quick-probe read-back the retained
\* classification never moves down the order Healthy < PhysicalCorruption <
\* DataLoss < FakeCapacity, it is the most severe classification observed so
\* far, and the status of the final report is at least as severe as every
\* classification observed.
C5_SeverityMonotone ==
    [][ /\ InPass
           => /\ SampleSeverity(sample_status') >= SampleSeverity(sample_status)
              /\ SampleSeverity(sample_status') = worst_seen'
        /\ (pc = "v_report" /\ pc' = "v_done")
           => status_severity(verify_result'.val.status) >= worst_seen
        /\ (InPass /\ pc' = "p_done" /\ probe_result'.ok /\ worst_seen > 0)
           => /\ probe_result'.val.some
              /\ status_severity(probe_result'.val.report.status) >= worst_seen
      ]_vars

C5_Witness ==
    /\ pc = "v_done" /\ verify_result.ok
    /\ Len(dev) >= 2
    /\ dev[1].kind = "zero"
    /\ dev[Len(dev)].kind = "altered"
    /\ mismatch_blocks = 2 /\ read_error_blocks = 0
    /\ v_exit = "complete"
    /\ sample_status = "FakeCapacity"
    /\ verify_result.val.status = "FakeCapacity"

FullOutcomes == {"OkZero", "WriteZero", "StorageFull"}
FatalWriteKinds == {"Interrupted", "Other"}

\* C6 as stated: a write call that returns 0 bytes or fails with WriteZero or
\* StorageFull ends the loop normally: nothing is sent to the error sink, the
\* data is synced and the phase returns Ok with the bytes written so far; with
\* limit_mb = 0 and no cancellation this is the only non-error end.
C6_FullIsNormal_AsStated ==
    /\ (pc = "w_done" /\ last_write \in FullOutcomes)
       => /\ write_result = Ok(current_offset)
          /\ sink_errors = <<>>
          /\ Len(sync_log) = 1 /\ sync_log[1].ok
    /\ (pc = "w_done" /\ limit_mb = 0 /\ write_result.ok /\ w_exit # "cancel")
       => w_exit = "full"

\* C6 (amended): such a write call ends the loop without a message to the
\* sink and the data is synced once; the phase returns Ok with the bytes
\* written so far unless that sync fails, and then the sync failure is the
\* only message and the error returned.  With limit_mb = 0 and no
\* cancellation device-full is the only non-error end of the loop.
C6_FullIsNormal ==
    /\ (pc = "w_sync" /\ last_write \in FullOutcomes)
       => w_exit = "full" /\ stop_due_to_full /\ sink_errors = <<>>
                          /\ sync_log = <<>>
    /\ (pc = "w_done" /\ last_write \in FullOutcomes)
       => /\ w_exit = "full"
          /\ Len(sync_log) = 1
          /\ current_offset = DevSize(dev)
          /\ IF sync_log[1].ok
             THEN write_result = Ok(current_offset) /\ sink_errors = <<>>
             ELSE /\ write_result = Err("SyncFailed")
                  /\ \A i \in 1..Len(sink_errors) : sink_errors[i].what = "sync"
                  /\ Len(sink_errors) <= 1
    /\ (pc = "w_done" /\ limit_mb = 0 /\ write_result.ok /\ w_exit # "cancel")
       => w_exit = "full"

C6_Witness ==
    /\ pc = "w_done" /\ last_write = "WriteZero"
    /\ write_result.ok /\ write_result.val > 0
    /\ limit_mb = 0 /\ has_sink

\* C7: a write error of a kind other than device-full is fatal: the sink gets
\* exactly one message, naming the current offset, the same error is returned,
\* and neither a sync nor a progress event follows.
C7_FatalWriteError ==
    (pc = "w_done" /\ last_write \in FatalWriteKinds)
    => /\ write_result = Err(last_write)
       /\ sync_log = <<>>
       /\ has_sink => /\ sink_errors = <<[what |-> "write_failure",
                                          offset |-> current_offset]>>
                      /\ last_event = "sink_error"
       /\ ~has_sink => sink_errors = <<>>
       /\ current_offset = DevSize(dev)

C7_Witness ==
    /\ pc = "w_done" /\ last_write = "Interrupted" /\ has_sink
    /\ current_offset > block_size
    /\ written > 0
    /\ Len(sink_errors) = 1

\* C8: whenever the write loop ends without a fatal write error (limit,
\* device full, cancellation) the data is synced exactly once, after the last
\* write and before the phase returns; Ok(bytes) is returned only if that sync
\* succeeded, and a sync failure is sent to the sink once and returned.
C8_SyncOnceBeforeReturn ==
    /\ (pc \in {"w_loop", "w_write", "w_sync"}) => sync_log = <<>>
    /\ (pc = "w_done" /\ w_exit \in {"limit", "full", "cancel"})
       => /\ Len(sync_log) = 1
          /\ sync_log[1].at = current_offset
          /\ current_offset = DevSize(dev)
          /\ write_result.ok => (sync_log[1].ok /\ write_result.val = current_offset)
          /\ ~sync_log[1].ok
             => /\ write_result = Err("SyncFailed")
                /\ sink_errors = IF has_sink
                                 THEN <<[what |-> "sync", offset |-> current_offset]>>
                                 ELSE <<>>

C8_Witness ==
    /\ pc = "w_done" /\ w_exit = "cancel" /\ has_sink
    /\ Len(sync_log) = 1 /\ ~sync_log[1].ok
    /\ current_offset > 0
    /\ write_result = Err("SyncFailed")

\* C9 as stated: if the token is set when the write loop polls it, the phase
\* writes no further block and returns Ok(n), n the bytes written before the
\* poll.
C9_CancelReturnsOk_AsStated ==
    (pc = "w_done" /\ w_exit = "cancel")
    => /\ write_result = Ok(cancel_offset)
       /\ DevSize(dev) = cancel_offset

\* C9 (amended): if the token is set when the write loop polls it, the phase
\* writes no further block, syncs, and returns Ok(n), n the bytes written
\* before the poll, unless the sync fails, and then it returns that error.
C9_CancelReturnsOk ==
    [][ /\ (pc = "w_loop" /\ pc' # "w_loop" /\ has_cancel /\ cancel_flag
            /\ current_offset < limit_bytes)
           => /\ pc' = "w_sync" /\ w_exit' = "cancel"
              /\ cancel_offset' = current_offset
        /\ (pc = "w_sync" /\ w_exit = "cancel")
           => /\ dev' = dev
              /\ current_offset' = current_offset
        /\ (pc = "w_sync" /\ pc' = "w_done" /\ w_exit = "cancel")
           => /\ DevSize(dev') = cancel_offset
              /\ IF sync_log'[1].ok
                 THEN write_result' = Ok(cancel_offset)
                 ELSE write_result' = Err("SyncFailed")
      ]_vars

C9_Witness ==
    /\ pc = "w_done" /\ w_exit = "cancel"
    /\ write_result.ok /\ write_result.val = cancel_offset
    /\ cancel_offset > 0 /\ cancel_offset < limit_bytes
    /\ limit_mb > 0

\* C10: the write and verify loops load the token exactly once per block
\* iteration (and once more when that load ends the loop), never inside a
\* block, so after the token is set at most block_size further bytes are
\* written or read before the loop exits.
C10_CancelLatencyOneBlock ==
    /\ (has_cancel /\ cancel_flag /\ (InWrite \/ InVerify))
       => since_cancel <= block_size
    /\ (has_cancel /\ InWrite)
       => polls = iterations + (IF w_exit = "cancel" THEN 1 ELSE 0)
    /\ (has_cancel /\ InVerify)
       => polls = iterations + (IF v_exit = "cancel" THEN 1 ELSE 0)
    /\ ~has_cancel => polls = 0

C10_Witness ==
    /\ pc = "v_report" /\ v_exit = "cancel"
    /\ since_cancel = block_size
    /\ current_offset > since_cancel
    /\ polls = iterations + 1


\* the phase whose start this step is
StartsWrite == pc = "idle" /\ pc' \in {"w_loop", "w_done"}
StartsProbe == pc = "idle" /\ pc' \in {"p_write", "p_done"}
StartsVerify == pc \in {"idle", "w_done"} /\ pc' \in {"v_loop", "v_done"}

\* the step neither opened, created, truncated nor wrote the target and
\* passed nothing to the sink
Untouched ==
    /\ dev' = dev
    /\ target_exists' = target_exists
    /\ ~target_opened'
    /\ sink_errors' = sink_errors
    /\ last_event' = last_event

\* no call on the target failed: every sync succeeded and the verify phase
\* could open the target and allocate its buffer
SessionFaultFree ==
    /\ \A i \in 1..Len(sync_log) : sync_log[i].ok
    /\ VerifyEnvOk

\* C11 as stated: when the user requests a stop during a running diagnosis
\* and the engine observes the token, the phase result carries the
\* Interrupted error kind and the session ends with DIAGNOSIS_CANCELLED,
\* with neither DIAGNOSIS_COMPLETE nor an error event (no call on the
\* target having failed).
C11_CancelEndsSession ==
    (pc = "s_done" /\ (w_exit = "cancel" \/ v_exit = "cancel")
     /\ SessionFaultFree)
    => /\ ui_event.name = "DIAGNOSIS_CANCELLED"
       /\ sink_errors = <<>>
       /\ LET res == IF v_exit = "cancel" THEN verify_result ELSE write_result
          IN ~res.ok /\ res.kind = "Interrupted"

\* C12: a precondition failure happens before any I/O: the write phase and
\* the quick probe return NotFound when the parent directory is missing, and
\* every phase returns InvalidInput when the configured block size is 0 (the
\* parent check comes first in the two phases that have it); in each case
\* the target is not opened, created or truncated and the sink gets nothing.
C12_PreconditionsBeforeIo ==
    [][ /\ (StartsWrite /\ ~parent_exists)
           => /\ pc' = "w_done" /\ write_result' = Err("NotFound")
              /\ Untouched
        /\ (StartsProbe /\ ~parent_exists)
           => /\ pc' = "p_done" /\ probe_result' = Err("NotFound")
              /\ Untouched
        /\ (StartsWrite /\ parent_exists /\ block_size_cfg = 0)
           => /\ pc' = "w_done" /\ write_result' = Err("InvalidInput")
              /\ Untouched
        /\ (StartsProbe /\ parent_exists /\ block_size_cfg = 0)
           => /\ pc' = "p_done" /\ probe_result' = Err("InvalidInput")
              /\ Untouched
        /\ (StartsVerify /\ v_block_size_cfg' = 0)
           => /\ pc' = "v_done" /\ verify_result' = Err("InvalidInput")
              /\ Untouched
      ]_vars

C12_Witness ==
    /\ pc = "v_done" /\ v_block_size_cfg = 0
    /\ verify_result = Err("InvalidInput")
    /\ target_exists /\ ~target_opened
    /\ DevSize(dev) = PreexistingBytes
    /\ total_bytes = DIRECT_IO_ALIGNMENT

\* C13: run_verify_phase called with total_bytes that is not a multiple of
\* 4096 returns InvalidInput before the target is opened: no block is read,
\* the sink gets nothing and no report is produced.
C13_UnalignedTotalRejected ==
    [][ (StartsVerify /\ total_bytes' % 4096 # 0)
        => /\ pc' = "v_done"
           /\ verify_result' = Err("InvalidInput")
           /\ Untouched
           /\ iterations' = 0 /\ file_pos' = 0 /\ current_offset' = 0
      ]_vars

C13_Witness ==
    /\ pc = "v_done" /\ v_block_size_cfg # 0
    /\ write_result.ok /\ write_result.val = total_bytes
    /\ total_bytes % 4096 = 1
    /\ verify_result = Err("InvalidInput")
    /\ ~target_opened

\* the probe was called with its parent directory present and a block size
\* that resolves, and has returned
ProbeReturned == pc = "p_done" /\ parent_exists /\ block_size_cfg # 0

\* C14 as stated: run_quick_probe_phase called with fewer than 2 steps
\* returns InvalidInput, for every value of limit_mb.
C14_FewStepsRejected_AsStated ==
    (ProbeReturned /\ steps < 2) => probe_result = Err("InvalidInput")

\* C14 (amended): with fewer than 2 steps the probe returns InvalidInput for
\* every limit_mb > 0, before the target is opened; with limit_mb = 0 the
\* probe is skipped and returns Ok(None) whatever steps is.
C14_FewStepsRejected ==
    /\ (ProbeReturned /\ steps < 2 /\ limit_mb > 0)
       => probe_result = Err("InvalidInput") /\ ~target_opened
    /\ (ProbeReturned /\ limit_mb = 0)
       => probe_result = Ok(NoReport) /\ ~target_opened

C14_Witness ==
    /\ ProbeReturned /\ steps = 1 /\ limit_mb = 1
    /\ probe_result = Err("InvalidInput")
    /\ block_size_cfg = 300000

\* largest steps argument the anchor computation is examined with
MaxProbeSteps == 6

\* the properties claimed for an anchor list over `limit` bytes
AnchorsWellFormed(anchors, limit, bsize) ==
    /\ Len(anchors) >= 1
    /\ \A i \in 1..Len(anchors) :
         /\ anchors[i] % 4096 = 0
         /\ anchors[i] + bsize <= limit
         /\ i < Len(anchors) => anchors[i] < anchors[i + 1]
    /\ \E i \in 1..Len(anchors) : anchors[i] = 0
    /\ \E i \in 1..Len(anchors) : anchors[i] = limit - bsize

AliasedAnchor ==
    /\ pc = "p_read" /\ anchor_idx <= Len(offsets)
    /\ \E j \in 1..Len(offsets) :
         /\ offsets[j] # offsets[anchor_idx]
         /\ ReadPieces(dev, offsets[anchor_idx], block_size)
              = <<Extent(offsets[j], 0, block_size, "stream")>>

\* the step is a successful read-back of the current anchor
ProbeReadsAnchor ==
    /\ pc = "p_read" /\ anchor_idx <= Len(offsets)
    /\ pc' \in {"p_read", "p_report"}
    /\ dev' = dev /\ corrupt_count' = corrupt_count
    /\ read_error_blocks' = read_error_blocks

\* C16: in the probe's read-back, an anchor whose bytes fail verification
\* for that anchor but equal the pattern of a different anchor ends the
\* read-back at once, and the probe returns Some(report) with status
\* FakeCapacity whatever read errors or mismatches were counted before.
C16_AliasIsFakeCapacity ==
    [][ /\ (AliasedAnchor /\ ProbeReadsAnchor)
           => /\ pc' = "p_report"
              /\ mismatch_blocks' = mismatch_blocks + 1
              /\ sample_status' = "FakeCapacity"
        /\ pc = "p_report"
           => /\ pc' = "p_done"
              /\ UNCHANGED <<anchor_idx, valid_bytes, mismatch_blocks,
                             read_error_blocks, dev>>
              /\ probe_result'.ok /\ probe_result'.val.some
              /\ probe_result'.val.report.status = "FakeCapacity"
      ]_vars

C16_Witness ==
    /\ pc = "p_done" /\ probe_result.ok /\ probe_result.val.some
    /\ probe_result.val.report.status = "FakeCapacity"
    /\ read_error_blocks >= 1
    /\ mismatch_blocks >= 2
    /\ anchor_idx <= Len(offsets)

\* the probe went through its read-back and returned a result
ProbeCompleted == pc = "p_done" /\ probe_result.ok /\ Len(offsets) > 0

AnchorsReadBack ==
    (valid_bytes \div block_size) + mismatch_blocks + read_error_blocks

\* C18 as stated: a report returned by the quick probe has tested_bytes =
\* (number of anchors actually read back) x block_size, also when the
\* read-back stopped early on a FakeCapacity match.
C18_TestedBytesScoped ==
    (ProbeCompleted /\ probe_result.val.some)
    => probe_result.val.report.tested_bytes = AnchorsReadBack * block_size

\* in a pass, a classification is retained only after a mismatch was counted
SampleImpliesMismatch ==
    (pc \in {"v_loop", "v_read", "v_seek", "v_report", "v_done",
             "p_read", "p_report", "p_done"}
     /\ sample_status # "None")
    => mismatch_blocks >= 1

\* tallies generate_report is examined with
ReportCounts == 0..2

C20_ReadErrorsAreDataLoss_AsStated ==
    (pc = "v_done" /\ verify_result.ok /\ read_error_blocks > 0)
    => verify_result.val.status = "DataLoss"

\* C20 (amended): with read_error_blocks > 0 generate_report returns
\* DataLoss regardless of the mismatch count, unless the retained
\* classification is FakeCapacity, and then it returns FakeCapacity.
C20_ReadErrorsAreDataLoss ==
    /\ (pc = "v_done" /\ verify_result.ok /\ read_error_blocks > 0)
       => verify_result.val.status
            = IF sample_status = "FakeCapacity" THEN "FakeCapacity"
              ELSE "DataLoss"
    /\ (ProbeCompleted /\ probe_result.val.some /\ read_error_blocks > 0)
       => probe_result.val.report.status
            = IF sample_status = "FakeCapacity" THEN "FakeCapacity"
              ELSE "DataLoss"
    /\ pc = "idle"
       => \A m \in ReportCounts, r \in ReportCounts \ {0},
             sm \in Statuses \cup {"None"} :
            generate_report(MiB, MiB, 0, m, r, sm).status
              = IF sm = "FakeCapacity" THEN "FakeCapacity" ELSE "DataLoss"

C20_Witness ==
    /\ pc = "v_done" /\ verify_result.ok
    /\ read_error_blocks = 1 /\ mismatch_blocks = 2
    /\ sample_status = "PhysicalCorruption"
    /\ verify_result.val.status = "DataLoss"
    /\ verify_result.val.error_count = 3

\* ---------------------------------------------------------------- C21
\* the order of severity: Healthy < PhysicalCorruption < DataLoss < FakeCapacity
SeverityRank(st) ==
    CASE st = "Healthy" -> 0
      [] st = "PhysicalCorruption" -> 1
      [] st = "DataLoss" -> 2
      [] st = "FakeCapacity" -> 3

\* the statuses a report has to choose from
StatusCandidates(mismatch, read_errors, sample) ==
    {IF mismatch + read_errors = 0 THEN "Healthy" ELSE "PhysicalCorruption"}
    \cup (IF read_errors > 0 THEN {"DataLoss"} ELSE {})
    \cup (IF sample # "None" THEN {sample} ELSE {})

MostSevere(S) == CHOOSE st \in S : \A t \in S : SeverityRank(t) <= SeverityRank(st)

StatusIsMostSevere(report, mismatch, read_errors, sample) ==
    report.status = MostSevere(StatusCandidates(mismatch, read_errors, sample))

\* C21: the status of every report is the most severe of the base status
\* (Healthy when error_count is 0, else PhysicalCorruption), DataLoss when a
\* read error occurred, and the sample status when one was supplied: a
\* FakeCapacity sample overrides PhysicalCorruption and DataLoss, and a
\* sample that is not more severe leaves the status as it was.
C21_StatusIsMostSevere ==
    /\ pc = "idle" =>
         \A m \in ReportCounts, r \in ReportCounts,
            sample \in Statuses \cup {"None"} :
             LET rep == generate_report(8192, 8192, 0, m, r, sample)
                 bare == generate_report(8192, 8192, 0, m, r, "None")
             IN /\ StatusIsMostSevere(rep, m, r, sample)
                /\ (sample = "FakeCapacity") => rep.status = "FakeCapacity"
                /\ (sample # "None"
                    /\ SeverityRank(sample) <= SeverityRank(bare.status))
                   => rep.status = bare.status
    /\ (pc = "v_done" /\ verify_result.ok)
       => StatusIsMostSevere(verify_result.val, mismatch_blocks,
                             read_error_blocks, sample_status)
    /\ (pc = "p_done" /\ probe_result.ok /\ probe_result.val.some)
       => StatusIsMostSevere(probe_result.val.report, mismatch_blocks,
                             read_error_blocks, sample_status)

\* a pass with a read error and an all-zero block: the FakeCapacity sample
\* overrides DataLoss
C21_Witness ==
    /\ pc = "v_done" /\ verify_result.ok
    /\ read_error_blocks > 0
    /\ sample_status = "FakeCapacity"
    /\ verify_result.val.status = "FakeCapacity"

\* ---------------------------------------------------------------- C22
IsAllZero(bytes) == \A i \in 1..Len(bytes) : bytes[i] = 0

\* C22: analyze_failure_sample, for two blocks of equal nonzero length that
\* differ, returns FakeCapacity exactly when every byte of the actual block
\* is zero (the expected block then has a nonzero byte) and
\* PhysicalCorruption otherwise; for empty, unequal-length or identical
\* inputs it returns no classification.
C22_ZeroReadIsFakeCapacity ==
    c_last.op = "analyze" =>
        LET expected == c_last.expected
            actual == c_buf
            classed == /\ Len(expected) > 0
                       /\ Len(expected) = Len(actual)
                       /\ expected # actual
        IN /\ ~classed => c_last.res = "None"
           /\ classed => /\ c_last.res \in {"FakeCapacity", "PhysicalCorruption"}
                         /\ c_last.res = "FakeCapacity" <=> IsAllZero(actual)
                         /\ c_last.res = "FakeCapacity"
                            => ~IsAllZero(expected)

\* a filled block came back as zeros and was classified
C22_Witness ==
    /\ c_last.op = "analyze" /\ c_altered
    /\ Len(c_buf) = 16 /\ IsAllZero(c_buf)
    /\ c_last.res = "FakeCapacity"

\* a block with two changed bytes is not FakeCapacity
C22_WitnessCorrupt ==
    /\ c_last.op = "analyze" /\ c_altered
    /\ ~IsAllZero(c_buf)
    /\ c_last.offset = c_off
    /\ c_last.res = "PhysicalCorruption"

\* ---------------------------------------------------------------- C23
ScoreTotals == {0, 512, 1024}
ScoreValids == {0, 256, 512, 1024, 1536}

\* the score num/den lies between 0 and 100
ScoreInRange(h) == h.den > 0 /\ 0 <= h.num /\ h.num <= 100 * h.den

\* C23: health_score is 0 when total_capacity is 0, 100 when valid_bytes
\* equals a nonzero total_capacity, and otherwise 100 * valid / total
\* limited to the range 0..100; every report of the verify phase and of the
\* probe carries a score in that range.
C23_ScoreInRange ==
    /\ pc = "idle" =>
         \A total \in ScoreTotals, valid \in ScoreValids :
             LET h == generate_report(total, total, valid, 0, 0, "None").health_score
             IN /\ ScoreInRange(h)
                /\ total = 0 => h.num = 0
                /\ (total > 0 /\ valid = total) => h.num = 100 * h.den
                /\ (total > 0 /\ valid <= total)
                   => h.num * total = 100 * valid * h.den
                /\ (total > 0 /\ valid > total) => h.num = 100 * h.den
    /\ (pc = "v_done" /\ verify_result.ok)
       => ScoreInRange(verify_result.val.health_score)
    /\ (pc = "p_done" /\ probe_result.ok /\ probe_result.val.some)
       => ScoreInRange(probe_result.val.report.health_score)

\* a probe report whose score is neither 0 nor 100
C23_Witness ==
    /\ pc = "p_done" /\ probe_result.ok /\ probe_result.val.some
    /\ 0 < probe_result.val.report.health_score.num
    /\ probe_result.val.report.health_score.num
         < 100 * probe_result.val.report.health_score.den

DiffIndexes(x, y) == {i \in 0..(Len(x) - 1) : x[i + 1] # y[i + 1]}

\* C25: verify_block(o, buf) returns Ok exactly when buf equals what
\* fill_block produces at o for that length; otherwise it returns Err(i)
\* with i the smallest index at which they differ (altering only byte 10
\* of a filled 256-byte block at offset 500 gives Err(10)).
C25_VerifyFindsFirstDifference ==
    c_last.op = "verify" =>
        LET expected == fill_block(c_last.offset, Len(c_buf))
            diff == DiffIndexes(c_buf, expected)
        IN /\ c_last.res.ok <=> c_buf = expected
           /\ ~c_last.res.ok =>
                /\ c_last.res.kind \in diff
                /\ \A i \in diff : c_last.res.kind <= i

\* the block of 256 bytes at offset 500 with byte 10 changed
C25_Witness ==
    /\ c_last.op = "verify" /\ c_last.offset = W(500)
    /\ Len(c_buf) = 256 /\ c_off = W(500) /\ c_altered
    /\ c_last.res = Err(10)

\* ---------------------------------------------------------------- C26
\* the offsets whose seeds are compared
SeedOffsets == CoreOffsets \o <<W(500)>>

PhaseStep ==
    /\ pc' # "s_done"
    /\ <<pc, w_vars, v_vars, p_vars, b_vars, dev, block_size, current_offset,
         io_len, polls, iterations, sink_errors, last_event, target_exists,
         target_opened>>'
       # <<pc, w_vars, v_vars, p_vars, b_vars, dev, block_size, current_offset,
           io_len, polls, iterations, sink_errors, last_event, target_exists,
           target_opened>>

\* C27: no phase of the engine (write, verify, probe) ever writes the
\* cancellation token: the phases only load it, and only the orchestrator
\* stores to it.
C27_PhasesOnlyReadToken ==
    [][PhaseStep => cancel_flag' = cancel_flag]_vars

\* both phases have polled a set token and returned; it is still set
C27_Witness ==
    /\ pc = "v_done" /\ cancel_flag
    /\ w_exit = "cancel" /\ v_exit = "cancel"
    /\ polls > 0

\* ---------------------------------------------------------------- C29
\* a phase is between its first and its last statement
PhaseRunning ==
    pc \in {"w_loop", "w_write", "w_sync", "v_loop", "v_read", "v_seek",
            "v_report", "p_write", "p_read", "p_report"}

\* how often the buffer b was deallocated
FreeCount(b) == Cardinality({i \in 1..Len(buf_frees) : buf_frees[i] = b})

\* C29: the AlignedBuffer a phase acquires is released exactly once on
\* every exit path of the phase (normal return, cancellation, early return
\* on a configuration, write, sync, seek or open error); it is never used
\* after its release and never shared between two invocations: a running
\* phase holds the buffer it allocated itself, which is none of the
\* released ones.
C29_BufferReleasedOnce ==
    /\ \A b \in 1..buf_allocs : FreeCount(b) <= 1
    /\ PhaseRunning => /\ buffer = buf_allocs /\ buffer > 0
                       /\ FreeCount(buffer) = 0
                       /\ \A b \in 1..(buf_allocs - 1) : FreeCount(b) = 1
    /\ ~PhaseRunning => /\ buffer = 0
                        /\ Len(buf_frees) = buf_allocs
                        /\ \A b \in 1..buf_allocs : FreeCount(b) = 1

\* a verify phase that ended on a seek failure after a write phase that
\* ended on a full device: each of the two buffers was released once
C29_Witness ==
    /\ pc = "v_done" /\ v_exit = "seek_failure" /\ w_exit = "full"
    /\ buf_allocs = 2 /\ buf_frees = <<1, 2>> /\ buffer = 0

\* a write phase that returned on a sync error
C29_WitnessSyncError ==
    /\ pc = "w_done" /\ ~write_result.ok /\ write_result.kind = "SyncFailed"
    /\ buf_allocs = 1 /\ buf_frees = <<1>>

\* ---------------------------------------------------------------- C30
\* C30 as stated: the byte the write phase stores at position p depends only
\* on p and not on the block size, so data written faithfully with one
\* block size verifies as Healthy when the verify phase runs over the same
\* bytes with any other block size.
C30_BlockSizeIndependent ==
    (/\ pc = "v_done" /\ CleanWrite /\ total_bytes = write_result.val
     /\ corrupt_count = 0 /\ read_error_blocks = 0
     /\ v_exit = "complete" /\ verify_result.ok)
    => /\ verify_result.val.status = "Healthy"
       /\ verify_result.val.error_count = 0

\* ---------------------------------------------------------------- C28
\* the start_diagnosis calls that took the running flag and have not yet
\* spawned their worker
PendingStarts == {i \in Starts : g_start[i] = "swapped"}

\* the workers that have not yet reset the running flag
ActiveWorkers ==
    {i \in Starts : g_worker[i].pos \in {"write", "verify", "emit",
                                         "reset_running"}}

\* the workers inside a phase of the engine
WorkersInPhase == {i \in Starts : g_worker[i].pos \in {"write", "verify"}}

\* a start_diagnosis call finds the running flag set
RejectedStart(i) ==
    g_start[i] = "idle" /\ g_start'[i] # "idle" /\ running

\* C28: at most one diagnosis worker is active at any time: a
\* start_diagnosis call that finds the running flag set returns an error
\* without spawning a worker or touching the cancel flag, and on every exit
\* path of the worker (complete, cancelled, write error, verify error) the
\* running flag is reset, so that a later start succeeds: the flag is set
\* exactly while a call or a worker holds it.
C28_OneWorkerAtATime ==
    /\ [](/\ Cardinality(PendingStarts \cup ActiveWorkers) <= 1
          /\ Cardinality(WorkersInPhase) <= 1
          /\ running <=> (PendingStarts \cup ActiveWorkers) # {}
          /\ \A i \in Starts : g_start[i] = "rejected"
                                => g_worker[i].pos = "none")
    /\ [][\A i \in Starts :
            /\ RejectedStart(i)
               => /\ g_start'[i] = "rejected"
                  /\ g_worker' = g_worker
                  /\ cancel_flag' = cancel_flag
            /\ (g_worker[i].pos = "reset_running"
                /\ g_worker'[i].pos # "reset_running")
               => ~running']_vars

\* a start was rejected while the first worker ran, that worker returned,
\* and the worker of a later start is about to leave on an error path
C28_Witness ==
    /\ g_start[2] = "rejected"
    /\ g_worker[1].pos = "exited"
    /\ g_start[3] = "returned"
    /\ g_worker[3].pos = "reset_running" /\ g_worker[3].path = "verify_error"
    /\ running

\* ---------------------------------------------------------------- C32
\* the extent that holds block i of a stream of n bytes cut into blocks of
\* bs bytes, each generated for the offset it starts at
StreamBlock(i, bs, n) ==
    Extent((i - 1) * bs, 0, Min(bs, n - (i - 1) * bs), "stream")

\* the target holds n bytes, and every position holds the stream byte of
\* the start offset of the block it lies in
HoldsBlockStream(d, bs, n) ==
    /\ DevSize(d) = n
    /\ Len(d) = (n + bs - 1) \div bs
    /\ \A i \in 1..Len(d) : d[i] = StreamBlock(i, bs, n)

\* C32: when a write call accepts only part of a block, the write phase
\* retries with the unwritten rest of the same generated block and advances
\* the offset by exactly the bytes accepted; so when the phase has returned
\* n on a device that stores faithfully, every position below n holds the
\* stream byte of its block's start offset, whatever the short writes were.
C32_ShortWriteKeepsBlock ==
    /\ []((pc = "w_done" /\ write_result.ok /\ corrupt_count = 0)
          => HoldsBlockStream(dev, block_size, write_result.val))
    /\ [][(pc = "w_write" /\ pc' = "w_write" /\ last_event' = "write"
           /\ dev' # dev)
          => /\ io_len' = io_len
             /\ written' > written /\ written' < io_len
             /\ current_offset' - current_offset = written' - written
             /\ current_offset' - written' = current_offset - written
             /\ ReadPieces(dev', current_offset, written' - written)
                  = <<Extent(current_offset - written, written,
                             written' - written, "stream")>>]_vars

\* a block was completed after a short write, and more blocks followed
C32_Witness ==
    /\ pc = "w_done" /\ write_result.ok /\ corrupt_count = 0
    /\ short_writes > 0
    /\ w_exit = "limit"
    /\ Len(dev) > 1
    /\ write_result.val = limit_mb * MiB

\* ---------------------------------------------------------------- C36
\* the blocks written at two anchors share no byte
AnchorsDisjoint ==
    \A i \in 1..(Len(offsets) - 1) : offsets[i] + block_size <= offsets[i + 1]

\* the probe ran to its report on a device that stored every write and
\* returned every read
FaithfulProbe ==
    /\ ProbeCompleted
    /\ corrupt_count = 0 /\ read_error_blocks = 0

\* C36: on a device that stores faithfully run_quick_probe_phase returns
\* None for every valid configuration (aligned limit of at least one block,
\* steps >= 2, any block size): blocks written at distinct anchors never
\* overlap, so every anchor reads back its own pattern and no healthy
\* device is reported as anomalous.
C36_FaithfulProbeReturnsNone ==
    FaithfulProbe => (AnchorsDisjoint /\ probe_result = Ok(NoReport))

\* on a faithful device the probe returns None exactly when no two anchor
\* blocks overlap
C36_NoneIffAnchorsDisjoint ==
    FaithfulProbe => (AnchorsDisjoint <=> probe_result = Ok(NoReport))

\* ---------------------------------------------------------------- C35
\* C35: a report from run_verify_phase has status Healthy only if the whole
\* requested range was read and matched (tested_bytes = valid_bytes =
\* total_capacity): a pass cut short by cancellation before all blocks were
\* checked is never reported with status Healthy.
C35_HealthyMeansWholeRange ==
    (pc = "v_done" /\ verify_result.ok
     /\ verify_result.val.status = "Healthy")
    => /\ verify_result.val.tested_bytes = verify_result.val.valid_bytes
       /\ verify_result.val.valid_bytes = verify_result.val.total_capacity

\* a Healthy report has no error and every byte it tested was valid; it
\* covers the whole range unless the pass was cancelled
C35_HealthyMeansTestedValid ==
    (pc = "v_done" /\ verify_result.ok
     /\ verify_result.val.status = "Healthy")
    => /\ verify_result.val.error_count = 0
       /\ verify_result.val.tested_bytes = verify_result.val.valid_bytes
       /\ v_exit # "cancel"
          => verify_result.val.valid_bytes = verify_result.val.total_capacity

\* ---------------------------------------------------------------- C34
\* a step that ends the processing of a block read by the verify loop
BlockProcessed == pc = "v_read" /\ pc' # "v_read"

\* C34: every report from run_verify_phase satisfies valid_bytes <=
\* tested_bytes <= total_capacity and error_count = mismatched blocks +
\* read-error blocks, and each processed block is counted in exactly one
\* tally: when no seek failure occurred, tested_bytes equals valid_bytes
\* plus the bytes of the mismatched blocks plus those of the read-error
\* blocks.
C34_ReportTallies ==
    /\ []((pc = "v_done" /\ verify_result.ok)
          => /\ verify_result.val.valid_bytes <= verify_result.val.tested_bytes
             /\ verify_result.val.tested_bytes
                  <= verify_result.val.total_capacity
             /\ verify_result.val.total_capacity = total_bytes
             /\ verify_result.val.error_count
                  = mismatch_blocks + read_error_blocks
             /\ v_exit # "seek_failure"
                => verify_result.val.tested_bytes
                     = verify_result.val.valid_bytes + failed_bytes.mismatch
                       + failed_bytes.read_error)
    /\ [][BlockProcessed
          => \/ /\ valid_bytes' = valid_bytes + io_len
                /\ UNCHANGED <<mismatch_blocks, read_error_blocks>>
             \/ /\ mismatch_blocks' = mismatch_blocks + 1
                /\ UNCHANGED <<valid_bytes, read_error_blocks>>
             \/ /\ read_error_blocks' = read_error_blocks + 1
                /\ UNCHANGED <<valid_bytes, mismatch_blocks>>]_vars

\* a pass in which one block matched, one mismatched and one could not be
\* read
C34_Witness ==
    /\ pc = "v_done" /\ verify_result.ok
    /\ v_exit = "complete"
    /\ verify_result.val.valid_bytes > 0
    /\ failed_bytes.mismatch > 0
    /\ failed_bytes.read_error > 0
    /\ failed_bytes.mismatch # failed_bytes.read_error
    /\ verify_result.val.tested_bytes = total_bytes

\* ---------------------------------------------------------------- C33
\* C33: the byte count the write phase returns is always a multiple of 4096,
\* whether the loop ended on the limit, on device full (also after a short
\* write inside a block) or on cancellation, so that run_verify_phase called
\* with that count never fails its alignment check.
C33_WrittenCountAligned ==
    /\ (pc = "w_done" /\ write_result.ok)
       => write_result.val % DIRECT_IO_ALIGNMENT = 0
    /\ (pc = "v_done" /\ write_result.ok /\ total_bytes = write_result.val
        /\ resolve_block_size(v_block_size_cfg).ok)
       => verify_result # Err("InvalidInput")

\* the count is aligned when the loop ended on the limit or on cancellation,
\* and on device full when every write call took whole alignment units
C33_AlignedUnlessCutInsideUnit ==
    (pc = "w_done" /\ write_result.ok
     /\ (w_exit \in {"limit", "cancel"} \/ short_writes = 0))
    => write_result.val % DIRECT_IO_ALIGNMENT = 0

\* ---------------------------------------------------------------- C31
\* C31: resolve_block_size rejects 0 with an InvalidInput error and maps
\* every positive size to the smallest multiple of 4096 that is greater than
\* or equal to it; a size that is a multiple of 4096 is returned unchanged.
C31_RoundsUpToAlignment ==
    r_res # NoResult
    => IF r_size = 0 THEN r_res = Err("InvalidInput")
       ELSE /\ r_res.ok
            /\ r_res.val % DIRECT_IO_ALIGNMENT = 0
            /\ r_res.val >= r_size
            /\ r_res.val - r_size < DIRECT_IO_ALIGNMENT

\* the same for the sizes whose rounded value a usize holds
C31_RoundsUpWhereRepresentable ==
    (r_res # NoResult /\ ~align_up_overflows(r_size, DIRECT_IO_ALIGNMENT))
    => C31_RoundsUpToAlignment

C31_Witness ==
    /\ r_size = 300000
    /\ r_res = Ok(303104)

\* ---------------------------------------------------------------- C37
\* worker i polls the token at the head of a loop turn (write.rs 72,
\* verify.rs 46)
Polls(i) ==
    /\ g_worker[i].pos \in {"write", "verify"}
    /\ g_worker[i].left > 0
    /\ \/ g_worker'[i].pos # g_worker[i].pos
       \/ g_worker'[i].left # g_worker[i].left
    /\ ~(/\ g_worker[i].pos = "verify"
         /\ g_worker'[i].path \in {"cancelled", "verify_error"})

\* C37: when stop_diagnosis returns Ok while a session's engine is running,
\* that session reads the token set at its next per-block poll, under every
\* interleaving of start_diagnosis, stop_diagnosis and the cleanup of the
\* previous worker.
C37_StopReachesSession ==
    [][\A i \in Starts : (Polls(i) /\ g_worker[i].owed) => cancel_flag]_vars

\* the stop requests that the session they were issued for has read
C37_StopReachesSessionWithoutLateCleanup ==
    [][\A i \in Starts :
         (/\ Polls(i) /\ g_worker[i].owed
          /\ \A k \in Starts : g_worker[k].pos # "exited")
         => cancel_flag]_vars

\* ---------------------------------------------------------------- C38
\* C38: a session reads the token set only if a stop_diagnosis call that
\* was invoked after the session's start_diagnosis began has returned Ok.
C38_CancelledOnlyByOwnStop ==
    [][\A i \in Starts :
         (Polls(i) /\ cancel_flag)
         => \E j \in Stops : g_stop[j].pos = "returned" /\ g_stop[j].seen >= i]_vars

\* a session reads the token set only after some stop_diagnosis call has
\* stored it
C38_CancelledOnlyByAStop ==
    [][\A i \in Starts :
         (Polls(i) /\ cancel_flag)
         => \E j \in Stops : g_stop[j].pos = "returned"]_vars

\* ---------------------------------------------------------------- C39
CeilDiv(a, b) == (a + b - 1) \div b

InWriteLoop == pc \in {"w_loop", "w_write"}
InVerifyLoop == pc \in {"v_loop", "v_read", "v_seek"}

\* the calls of the write loop: each accepted at least one byte, but for
\* the one that left the loop
WriteCallsBounded ==
    pc \in {"w_loop", "w_write", "w_sync"}
    => /\ current_offset <= limit_bytes
       /\ io_calls <= current_offset + (IF pc = "w_sync" /\ w_exit = "full"
                                         THEN 1 ELSE 0)
       /\ io_calls <= limit_bytes

\* the reads of the verify loop: one for each block started
VerifyReadsBounded ==
    pc \in {"v_loop", "v_read", "v_seek", "v_report"}
    => /\ current_offset <= total_bytes
       /\ io_calls <= CeilDiv(total_bytes, block_size)
       /\ io_calls = iterations - (IF pc = "v_read" THEN 1 ELSE 0)

\* a call of file.write advances the offset or leaves the loop; a turn of
\* the verify loop advances the offset or leaves the loop
LoopsAdvance ==
    /\ (pc = "w_write" /\ io_calls' # io_calls)
       => \/ current_offset' >= current_offset + 1 /\ InWriteLoop'
          \/ ~InWriteLoop'
    /\ (pc = "w_loop" /\ pc' = "w_write") => io_len' >= 1
    /\ (pc \in {"v_read", "v_seek"} /\ pc' = "v_loop")
       => current_offset' >= current_offset + 1
    /\ (pc = "v_read" /\ pc' # pc) => pc' \in {"v_loop", "v_seek"}
    /\ (pc = "v_seek" /\ pc' # pc) => pc' \in {"v_loop", "v_report"}

\* C39: with a nonzero limit the write phase, and with any total_bytes the
\* verify phase, terminates under every sequence of I/O outcomes: every call
\* of file.write and every turn of the verify loop advances the offset by at
\* least one byte or leaves the loop, the write loop makes at most
\* limit_bytes write calls and the verify loop at most
\* ceil(total_bytes / block_size) reads, and a phase that entered its loop
\* returns.
C39_PhasesTerminate ==
    /\ [](WriteCallsBounded /\ VerifyReadsBounded)
    /\ [][LoopsAdvance]_vars
    /\ (InWriteLoop /\ limit_mb > 0) ~> (pc = "w_done")
    /\ InVerifyLoop ~> (pc = "v_done")

\* a write phase with a limit ran to the limit, and the verify phase that
\* followed met a read error, sought past it, met another and failed to
\* seek, and returned
C39_Witness ==
    /\ pc = "v_done" /\ limit_mb > 0 /\ w_exit = "limit" /\ write_result.ok
    /\ v_exit = "seek_failure" /\ io_calls = 2 /\ read_error_blocks = 2

\* a write phase with a limit took a short write, was then told the device
\* is full and returned
C39_WitnessFull ==
    /\ pc = "w_done" /\ limit_mb > 0 /\ w_exit = "full"
    /\ short_writes > 0 /\ io_calls = 2

\* ---------------------------------------------------------------- C40
InVerifyPhase == pc \in {"v_loop", "v_read", "v_seek", "v_report", "v_done"}

\* the verify phase was not called: nothing of it was opened or read
VerifyNotCalled ==
    verify_result = NoResult /\ v_exit = "none" /\ total_bytes = 0

\* C40: in run_write_verify and in the worker of start_diagnosis the verify
\* phase starts only after the write phase returned Ok with
\* bytes_written > 0, and is asked to verify exactly bytes_written bytes; a
\* write error ends the run without any verify; bytes_written = 0 gives a
\* DataLoss report with total_capacity 0 and the target is not read.
C40_VerifyOnlyAfterWrite ==
    /\ [](InVerifyPhase
          => /\ write_result.ok /\ write_result.val > 0
             /\ total_bytes = write_result.val)
    /\ [](pc \in {"s_done", "r_done"}
          => IF ~write_result.ok
             THEN /\ VerifyNotCalled
                  /\ run_outcome.kind = "write_error"
                  /\ run_outcome.error = write_result.kind
             ELSE IF write_result.val = 0
             THEN /\ VerifyNotCalled
                  /\ run_outcome.kind = "report"
                  /\ run_outcome.bytes_written = 0
                  /\ run_outcome.report.status = "DataLoss"
                  /\ run_outcome.report.total_capacity = 0
             ELSE /\ verify_result # NoResult
                  /\ total_bytes = write_result.val
                  /\ run_outcome.kind \in {"report", "verify_error"})
    /\ [][(pc = "w_done" /\ pc' # "w_done")
          => IF write_result.ok /\ write_result.val > 0
             THEN InVerifyPhase' /\ total_bytes' = write_result.val
             ELSE pc' \in {"s_done", "r_done"}]_vars

\* run_write_verify returned the report for nothing written: the device
\* was full at the first write
C40_Witness ==
    /\ pc = "r_done" /\ write_result.ok /\ write_result.val = 0
    /\ w_exit = "full" /\ run_outcome.kind = "report"

\* the worker's verify phase was asked for the bytes written and reported
C40_WitnessVerified ==
    /\ pc = "s_done" /\ write_result.ok /\ write_result.val > 0
    /\ verify_result.ok /\ run_outcome.kind = "report"
    /\ run_outcome.report.total_capacity = write_result.val

\* the write phase failed and the run ended
C40_WitnessWriteError ==
    /\ pc = "r_done" /\ ~write_result.ok /\ run_outcome.kind = "write_error"

TypeOK ==
    /\ pc \in {"idle", "w_loop", "w_write", "w_sync", "w_done",
              "v_loop", "v_read", "v_seek", "v_report", "v_done",
              "p_write", "p_read", "p_report", "p_done", "s_done",
              "r_done"}
    /\ ui_event.name \in {"none", "DIAGNOSIS_COMPLETE", "DIAGNOSIS_CANCELLED"}
    /\ sample_status \in Statuses \cup {"None"}
====
